---- MODULE Spec2Model ----
(***************************************************************************)
(* Request lifecycle of the i-PI force providers (ipi/engine/forcefields.py)*)
(* ForceField (base), FFLennardJones: the shared request list, the status  *)
(* state machine, the lock, the polling thread and start/stop; and          *)
(* FFCavPhFPSocket, whose queue() fans a configuration out to one child    *)
(* request per bath, waits for them and merges their results. Further:     *)
(* FFDebye, FFCavPh.evaluate and its retry loop, start() and stop() of     *)
(* FFSocket, and fetch() of the socket inputs (ipi/inputs/forcefields.py). *)
(*                                                                         *)
(* A request (ForceRequest) is an allocated object: it is modelled by a    *)
(* handle, its index in `heap`; heap[h] holds the values of its fields.    *)
(* Time stamps (t_queued, t_dispatched, t_finished, start) are diagnostic  *)
(* wall-clock values and are left out of the record, except in SpecStamps, *)
(* which checks how queue() of FFCavPhFPSocket copies them.                *)
(***************************************************************************)
EXTENDS Integers, Sequences, FiniteSets, TLC

\* ---------------------------------------------------------------- bounds
NCallers == 2          \* caller threads
MaxReq == 2            \* requests allocated by queue() in one behaviour
MaxStart == 2          \* start() calls that return without an error
ReqIds == {0}          \* reqid arguments of queue()
NBath == 2             \* n_independent_bath of FFCavPhFPSocket
MaxSubmit == 2         \* FFCavPhFPSocket.queue() calls in one behaviour

\* atoms.q of the configurations handed to queue(): one atom, and two atoms
\* at unit separation along x
Configs == {<<0, 0, 0>>, <<0, 0, 0, 1, 0, 0>>}

\* `active` constructor arguments: the default [-1] (all atoms) and [1]
Actives == {<<-1>>, <<1>>}

\* `active` lists of one or two atom indexes in either order, some of them
\* beyond the atoms of Configs
ActivesAnyOrder == {<<-1>>, <<0>>, <<1, 0>>, <<0, 1>>, <<2, 0>>, <<0, 2>>}

\* reqid arguments of FFCavPhFPSocket.queue(): its default -1 and two bead numbers
AggReqIds == {-1, 0, 1}

\* atoms.q handed to FFCavPhFPSocket.queue(): two atoms, no photon coordinates
AggConfigs == {<<0, 0, 0, 1, 0, 0>>}

\* the atom coordinates of the configuration whose children are merged
MergeAtoms == <<0, 0, 0, 1, 0, 0>>
\* n_photon_3 of a cavity with one photon mode in one polarisation
OneMode3 == 3

\* results of the children that the merge of FFCavPhFPSocket.queue() is run on:
\* energies, force blocks of the length of a child, virials, extra strings
Energies == {0, 1, 2}
ForceBlocks == {[i \in 1..(Len(MergeAtoms) \div NBath) |-> i],
                [i \in 1..(Len(MergeAtoms) \div NBath) |-> IF i = 1 THEN 7 ELSE 0]}
Virials == {<<<<0, 0, 0>>, <<0, 0, 0>>, <<0, 0, 0>>>>, <<<<1, 0, 0>>, <<0, 2, 0>>, <<0, 0, 3>>>>}
Extras == {<<>>, <<"x">>}

\* the values time.time() returns while the children of one call are built,
\* dispatched and finished
MaxTime == 4
Times == 1..MaxTime

\* the retries after which FFCavPh.evaluate() calls softexit.trigger
RetryBound == 50
\* calls of calc_bare_nuclear_force that one evaluate() is followed for
MaxCalc == 53

\* self.name of an FFCavPh that runs an external program and reads its files
Methods == {"run_qc_driver", "qchem-neo"}
\* what the program of one bath leaves behind: files that are read with the
\* sizes expected, a file that cannot be read, files read with a wrong size,
\* and files on which the comparison of the sizes raises
Outcomes == {"ok", "unreadable", "wrongsize", "checkraises"}

\* H and xref of FFDebye: the Hessian 2 * identity and the reference at the
\* origin, for one atom and for two; vref is left at its default
IdentityTwice(n) == [i \in 1..n |-> [j \in 1..n |-> IF i = j THEN 2 ELSE 0]]
Hessians == {IdentityTwice(3), IdentityTwice(6)}
Xrefs == {[i \in 1..3 |-> 0], [i \in 1..6 |-> 0]}
vref == 0

\* pars of FFLennardJones
eps == 1
sigma == 1

Callers == 1..NCallers
\* the polling thread spawned by caller t in start() is thread NCallers + t
Pollers == (NCallers + 1)..(2 * NCallers)
Threads == Callers \cup Pollers
PollerOf(t) == NCallers + t

None == 0              \* Python None for handles, thread ids and the lock owner

VARIABLES
    requests,   \* self.requests: the list of request handles
    heap,       \* heap[h]: the fields of ForceRequest h
    iactive,    \* self.iactive: <<>> tagged None, or the index array
    lock,       \* owner of self._threadlock, None when free
    doloop,     \* self._doloop[0]
    thread,     \* self._thread: None or the id of the polling thread
    threaded,   \* self.threaded
    active,     \* self.active
    backend,    \* class of the object: "base" (ForceField), "lj", "socket", "debye" or "cavph"
    pc,         \* pc[t]: where thread t is
    request,    \* request[t]: argument of release(), newreq of queue()
    atoms,      \* atoms[t]: pbcpos of the running queue() call
    reqid,      \* reqid[t]: reqid of the running queue() call
    idx,        \* idx[t]: index of the list iterator of the running for loop
    r,          \* r[t]: loop variable of poll()/stop()
    found,      \* found[t]: value of `request in self.requests` in release()
    raised,     \* raised[t]: exception the last call of t ended with, or "none"
    registered, \* number of functions start() has registered with softexit
    removed,    \* history: the <<release argument, element taken out of the list>> pairs
    raced,      \* history: requests that two release() calls were given at once
    sawTwin,    \* history: a release() missed its argument in a list that held its equal in value
    everDone,   \* history: requests whose status has been Done
    selfrequest,\* self.request of FFCavPhFPSocket: the loop variable of its wait loop
    newreq_lst, \* newreq_lst[t]: the children of the running FFCavPhFPSocket.queue() call
    triggered,  \* softexit.triggered
    nph3,       \* self.ph.n_photon_3 if self.ph.apply_photon, else 0
    observed,   \* history: <<t, h>> when the wait loop of t has read h as Done
    midWait,    \* history: the callers whose wait loop ran when softexit was first triggered
    returned,   \* history: the aggregates FFCavPhFPSocket.queue() has returned
    error_flag, \* self.error_flag of FFCavPh
    count_retry,\* count_retry[t]: count_retry of the running FFCavPh.evaluate() call
    ncalc,      \* history: ncalc[t], the calls of calc_bare_nuclear_force by that evaluate()
    name,       \* self.name of FFCavPh: the method that computes the forces; "none" otherwise
    calcout,    \* calcout[t]: <<e, mf>> of the running FFCavPh.evaluate() call, <<>> before
    attempt,    \* history: attempt[t], "ok" or "failed" as the output of the last call was
    sockreq,    \* the list object self.socket.requests refers to; "none" without a socket
    threaded_arg, \* the `threaded` argument the object was constructed with
    H,          \* self.H of FFDebye; <<>> otherwise
    xref,       \* self.xref of FFDebye; <<>> otherwise
    socket      \* self.socket, the interface: "new", "open" or "closed"; "none" without a socket

shared == <<requests, heap, iactive, lock, doloop, thread>>
config == <<threaded, active, backend, sockreq, threaded_arg, H, xref, socket>>
\* a start() call has returned without an error
started == registered > 0
locals == <<pc, request, atoms, reqid, idx, r, found, raised>>
hist == <<removed, raced, sawTwin, everDone>>
\* the state of FFCavPh.evaluate()
cav == <<error_flag, count_retry, ncalc, name, calcout, attempt>>
\* the state of FFCavPhFPSocket.queue()
agg == <<selfrequest, newreq_lst, triggered, nph3, observed, midWait, returned>>
vars == <<requests, heap, iactive, lock, doloop, thread, threaded, active, backend,
          pc, request, atoms, reqid, idx, r, found, raised,
          registered, removed, raced, sawTwin, everDone,
          selfrequest, newreq_lst, triggered, nph3, observed, midWait, returned,
          error_flag, count_retry, ncalc, name, calcout, attempt, sockreq,
          threaded_arg, H, xref, socket>>

\* ---------------------------------------------------------------- helpers
Range(s) == {s[i] : i \in DOMAIN s}
Zeros(n) == [i \in 1..n |-> 0]
\* np.zeros((3, 3), float)
Zeros33 == <<Zeros(3), Zeros(3), Zeros(3)>>

\* the exceptions the methods end with
SizingValueError == "ValueError: There are more active atoms than atoms!"
RemoveValueError == "ValueError: list.remove(x): x not in list"
NameError == "NameError: Polling thread already started"

\* ForceRequest.__eq__: a == b only if a is b
EqByValue(a, b) == heap[a] = heap[b]
Eq(a, b) == a = b

\* `request in self.requests`
Contains(lst, a) == \E i \in DOMAIN lst : Eq(lst[i], a)
\* index of the element list.remove(a) takes out: the first one equal to a
FirstEq(lst, a) == CHOOSE i \in DOMAIN lst : Eq(lst[i], a) /\ \A j \in 1..(i - 1) : ~Eq(lst[j], a)
\* list.remove
RemoveAt(lst, i) == [j \in 1..(Len(lst) - 1) |-> IF j < i THEN lst[j] ELSE lst[j + 1]]

\* `with self._threadlock:` can be entered
LockFreeAlways == TRUE
LockFree == lock = None

\* r["status"] == "Queued"
IsQueuedAlways(h) == TRUE
IsQueued(h) == heap[h].status = "Queued"

\* `not self._thread is None`
ThreadExistsWhileLooping == doloop
ThreadExists == thread # None

\* ---------------------------------------------------------------- queue()
\* activehere of queue(): np.arange(len(pbcpos)) for active[0] == -1, else the
\* flattened [3n, 3n+1, 3n+2] of every n in active
ActiveHere(act, pos) ==
    IF act[1] = -1 THEN [i \in 1..Len(pos) |-> i - 1]
    ELSE [i \in 1..(3 * Len(act)) |-> 3 * act[((i - 1) \div 3) + 1] + ((i - 1) % 3)]

\* the sanity check of queue(): too many indexes, or the last one out of range
SizingError(ah, pos) == Len(ah) > Len(pos) \/ ah[Len(ah)] > Len(pos) - 1

\* the ForceRequest built by queue(); result None is <<>>, iactive is unwrapped
NewRequest(id, pos, act) ==
    [id |-> id, pos |-> pos, active |-> act, result |-> <<>>, status |-> "Queued"]

\* calls of queue() that have not yet allocated their request
Allocating == {t \in Callers : pc[t] \in {"q_setactive", "q_build"}}

\* a call of queue() up to `if self.iactive is None:`
QueueCall(t) ==
    /\ pc[t] = "idle"
    /\ Len(heap) + Cardinality(Allocating) < MaxReq
    /\ \E cfg \in Configs, id \in ReqIds :
          /\ atoms' = [atoms EXCEPT ![t] = cfg]
          /\ reqid' = [reqid EXCEPT ![t] = id]
    /\ raised' = [raised EXCEPT ![t] = "none"]
    /\ request' = [request EXCEPT ![t] = None]
    /\ found' = [found EXCEPT ![t] = FALSE]
    /\ pc' = [pc EXCEPT ![t] = IF iactive = <<>> THEN "q_setactive" ELSE "q_build"]
    /\ UNCHANGED <<shared, config, cav, agg, registered, idx, r, hist>>

\* `raise ValueError("There are more active atoms than atoms!")`
QueueSizingError(t) ==
    /\ pc[t] = "q_setactive"
    /\ SizingError(ActiveHere(active, atoms[t]), atoms[t])
    /\ raised' = [raised EXCEPT ![t] = SizingValueError]
    /\ atoms' = [atoms EXCEPT ![t] = <<>>]
    /\ reqid' = [reqid EXCEPT ![t] = 0]
    /\ pc' = [pc EXCEPT ![t] = "idle"]
    /\ UNCHANGED <<shared, config, cav, agg, registered, request, idx, r, found, hist>>

\* `self.iactive = activehere`
QueueSetActive(t) ==
    /\ pc[t] = "q_setactive"
    /\ ~SizingError(ActiveHere(active, atoms[t]), atoms[t])
    /\ iactive' = <<ActiveHere(active, atoms[t])>>
    /\ pc' = [pc EXCEPT ![t] = "q_build"]
    /\ UNCHANGED <<requests, heap, lock, doloop, thread, config, cav, agg, registered,
                   request, atoms, reqid, idx, r, found, raised, hist>>

\* `newreq = ForceRequest({...})`
QueueBuild(t) ==
    /\ pc[t] = "q_build"
    /\ heap' = Append(heap, NewRequest(reqid[t], atoms[t], iactive[1]))
    /\ request' = [request EXCEPT ![t] = Len(heap) + 1]
    /\ atoms' = [atoms EXCEPT ![t] = <<>>]
    /\ reqid' = [reqid EXCEPT ![t] = 0]
    /\ pc' = [pc EXCEPT ![t] = "q_append"]
    /\ UNCHANGED <<requests, iactive, lock, doloop, thread, config, cav, agg, registered,
                   idx, r, found, raised, hist>>

\* a queue() that polled whenever no polling thread exists
PollsInQueueIfNoThread == thread = None

\* `if not self.threaded:` of queue()
PollsInQueue == ~threaded

\* `with self._threadlock: self.requests.append(newreq)`, then
\* `if not self.threaded: self.poll()` and `return newreq`
QueueAppend(t) ==
    /\ pc[t] = "q_append"
    /\ LockFree
    /\ requests' = Append(requests, request[t])
    /\ pc' = [pc EXCEPT ![t] = IF PollsInQueue THEN "poll" ELSE "idle"]
    /\ request' = [request EXCEPT ![t] = IF PollsInQueue THEN request[t] ELSE None]
    /\ UNCHANGED <<heap, iactive, lock, doloop, thread, config, cav, agg, registered,
                   atoms, reqid, idx, r, found, raised, hist>>

\* ---------------------------------------------------------------- poll()
\* row i (0-based) of q = r["pos"].reshape((-1, 3)), component k in 1..3
Q(pos, i, k) == pos[3 * i + k]
Rij2(pos, i, j) ==
    (Q(pos, i, 1) - Q(pos, j, 1)) * (Q(pos, i, 1) - Q(pos, j, 1))
    + (Q(pos, i, 2) - Q(pos, j, 2)) * (Q(pos, i, 2) - Q(pos, j, 2))
    + (Q(pos, i, 3) - Q(pos, j, 3)) * (Q(pos, i, 3) - Q(pos, j, 3))
\* x6 = (sigma2 / rij2)**3; the division is exact for the Configs above
X6(pos, i, j) ==
    ((sigma * sigma) \div Rij2(pos, i, j)) * ((sigma * sigma) \div Rij2(pos, i, j))
    * ((sigma * sigma) \div Rij2(pos, i, j))
X12(pos, i, j) == X6(pos, i, j) * X6(pos, i, j)
\* dij *= sixepsfour * (2.0 * x12 - x6) / rij2
PairForce(pos, i, j, k) ==
    (Q(pos, i, k) - Q(pos, j, k))
    * ((6 * 4 * eps * (2 * X12(pos, i, j) - X6(pos, i, j))) \div Rij2(pos, i, j))

RECURSIVE SumTo(_, _)
\* F(0) + ... + F(n - 1)
SumTo(F(_), n) == IF n = 0 THEN 0 ELSE F(n - 1) + SumTo(F, n - 1)

\* v of FFLennardJones.evaluate
LJEnergy(pos) ==
    LET nat == Len(pos) \div 3
        PairV(p) == LET i == p \div nat  j == p % nat
                    IN  IF j < i THEN X12(pos, i, j) - X6(pos, i, j) ELSE 0
    IN  4 * eps * SumTo(PairV, nat * nat)

\* f.reshape(nat * 3) of FFLennardJones.evaluate
LJForces(pos) ==
    LET nat == Len(pos) \div 3
    IN  [c \in 1..(3 * nat) |->
            LET a == (c - 1) \div 3
                k == ((c - 1) % 3) + 1
                On(b) == IF b < a THEN PairForce(pos, a, b, k)
                         ELSE IF b > a THEN 0 - PairForce(pos, b, a, k)
                         ELSE 0
            IN  SumTo(On, nat)]

\* the result list the backend writes to r["result"]
WrongLengthResult(h) == <<0, Zeros(3), Zeros33, "">>
NoResult(h) == <<>>
EvalResult(h) ==
    IF backend = "lj"
    THEN <<LJEnergy(heap[h].pos), LJForces(heap[h].pos), Zeros33, "">>
    ELSE <<0, Zeros(Len(heap[h].pos)), Zeros33, "">>

\* where a thread goes when its poll() returns
AfterPoll(t) == IF t \in Pollers THEN "l_check" ELSE "idle"

\* `with self._threadlock:` of poll()
PollEnter(t) ==
    /\ pc[t] = "poll"
    /\ LockFree
    /\ lock' = t
    /\ idx' = [idx EXCEPT ![t] = 0]
    /\ pc' = [pc EXCEPT ![t] = "p_next"]
    /\ UNCHANGED <<requests, heap, iactive, doloop, thread, config, cav, agg, registered,
                   request, atoms, reqid, r, found, raised, hist>>

\* `for r in self.requests: if r["status"] == "Queued":`
PollNext(t) ==
    /\ pc[t] = "p_next"
    /\ idx[t] < Len(requests)
    /\ idx' = [idx EXCEPT ![t] = idx[t] + 1]
    /\ r' = [r EXCEPT ![t] = requests[idx[t] + 1]]
    /\ pc' = [pc EXCEPT ![t] =
                IF IsQueued(requests[idx[t] + 1])
                THEN (IF backend \in {"lj", "debye", "cavph"} THEN "p_running" ELSE "p_result")
                ELSE "p_next"]
    /\ UNCHANGED <<shared, config, cav, agg, registered, request, atoms, reqid, found, raised, hist>>

\* the loop of poll() is exhausted: the lock is released and poll() returns
PollExit(t) ==
    /\ pc[t] = "p_next"
    /\ idx[t] >= Len(requests)
    /\ lock' = None
    /\ idx' = [idx EXCEPT ![t] = 0]
    /\ r' = [r EXCEPT ![t] = None]
    /\ request' = [request EXCEPT ![t] = None]
    /\ pc' = [pc EXCEPT ![t] = AfterPoll(t)]
    /\ UNCHANGED <<requests, heap, iactive, doloop, thread, config, cav, agg, registered,
                   atoms, reqid, found, raised, hist>>

\* FFLennardJones.poll, FFDebye.poll, FFCavPh.poll: `r["status"] = "Running"`,
\* then `self.evaluate(r)`
PollRunning(t) ==
    /\ pc[t] = "p_running"
    /\ heap' = [heap EXCEPT ![r[t]].status = "Running"]
    /\ pc' = [pc EXCEPT ![t] = IF backend = "cavph" THEN "ev_calc"
                               ELSE IF backend = "debye" THEN "db_eval"
                               ELSE "p_result"]
    /\ UNCHANGED <<requests, iactive, lock, doloop, thread, config, cav, agg, registered,
                   request, atoms, reqid, idx, r, found, raised, hist>>

\* `r["result"] = [...]`
PollResult(t) ==
    /\ pc[t] = "p_result"
    /\ heap' = [heap EXCEPT ![r[t]].result = EvalResult(r[t])]
    /\ pc' = [pc EXCEPT ![t] = "p_done"]
    /\ UNCHANGED <<requests, iactive, lock, doloop, thread, config, cav, agg, registered,
                   request, atoms, reqid, idx, r, found, raised, hist>>

\* `r["status"] = "Done"`
PollDone(t) ==
    /\ pc[t] = "p_done"
    /\ heap' = [heap EXCEPT ![r[t]].status = "Done"]
    /\ everDone' = everDone \cup {r[t]}
    /\ pc' = [pc EXCEPT ![t] = "p_next"]
    /\ UNCHANGED <<requests, iactive, lock, doloop, thread, config, cav, agg, registered,
                   request, atoms, reqid, idx, r, found, raised, removed, raced, sawTwin>>

\* ---------------------------------------------------------------- FFDebye.evaluate()
HessianValueError == "ValueError: Hessian size mismatch"
ReferenceValueError == "ValueError: Reference structure size mismatch"

\* np.dot of two vectors, and of a matrix and a vector
Dot(a, b) == LET P(i) == a[i + 1] * b[i + 1] IN SumTo(P, Len(a))
MatVec(M, d) == [i \in 1..Len(M) |-> Dot(M[i], d)]

\* the checks of evaluate(): `self.H.shape != (n3, n3)`, then
\* `self.xref.shape != (n3,)`; "none" when both pass
DebyeError(q) ==
    IF Len(H) # Len(q) THEN HessianValueError
    ELSE IF Len(xref) # Len(q) THEN ReferenceValueError
    ELSE "none"

\* `d = q - self.xref`, `mf = np.dot(self.H, d)` and the result list; the
\* products of the Hessians modelled are even, so that the half is exact
DebyeResult(q) ==
    LET d == [i \in 1..Len(q) |-> q[i] - xref[i]]
        mf == MatVec(H, d)
    IN  <<vref + Dot(d, mf) \div 2, [i \in 1..Len(mf) |-> 0 - mf[i]], Zeros33, "">>

\* FFDebye.evaluate: a ValueError leaves the `with` block of poll(), which
\* releases the lock, then poll() and the queue() that called it, which
\* returns no request; otherwise `r["result"] = [...]`
DebyeEvaluate(t) ==
    /\ pc[t] = "db_eval"
    /\ IF DebyeError(heap[r[t]].pos) # "none"
       THEN /\ UNCHANGED <<requests, heap>>
            /\ raised' = [raised EXCEPT ![t] = DebyeError(heap[r[t]].pos)]
            /\ lock' = None
            /\ idx' = [idx EXCEPT ![t] = 0]
            /\ r' = [r EXCEPT ![t] = None]
            /\ request' = [request EXCEPT ![t] = None]
            /\ pc' = [pc EXCEPT ![t] = "idle"]
       ELSE /\ heap' = [heap EXCEPT ![r[t]].result = DebyeResult(heap[r[t]].pos)]
            /\ pc' = [pc EXCEPT ![t] = "p_done"]
            /\ UNCHANGED <<requests, lock, idx, r, request, raised>>
    /\ UNCHANGED <<iactive, doloop, thread, config, cav, agg, registered,
                   atoms, reqid, found, hist>>

\* ---------------------------------------------------------------- release()
\* requests a caller can hold: those a queue() call has returned
InQueueCall == {"q_setactive", "q_build", "q_append", "poll", "p_next", "p_running", "p_result", "p_done"}
Returned(h) == ~\E u \in Callers : pc[u] \in InQueueCall /\ request[u] = h

\* other release() calls running with the same argument
Racing(t, h) == {u \in Callers \ {t} : pc[u] \in {"rel_enter", "rel_remove"} /\ request[u] = h}

ReleaseCall(t) ==
    /\ pc[t] = "idle"
    /\ \E h \in DOMAIN heap :
          /\ Returned(h)
          /\ request' = [request EXCEPT ![t] = h]
          /\ raced' = IF Racing(t, h) # {} THEN raced \cup {h} ELSE raced
    /\ raised' = [raised EXCEPT ![t] = "none"]
    /\ found' = [found EXCEPT ![t] = FALSE]
    /\ pc' = [pc EXCEPT ![t] = "rel_enter"]
    /\ UNCHANGED <<shared, config, cav, agg, registered, atoms, reqid, idx, r, removed, sawTwin, everDone>>

\* the listed requests that are other objects than h with the same field values
Twins(h) == {a \in Range(requests) : a # h /\ heap[a] = heap[h]}

\* `if request in self.requests:`
ReleaseFoundAlways(t) == TRUE
ReleaseFound(t) == Contains(requests, request[t])

\* `with self._threadlock: if request in self.requests:`; when the request is
\* not in the list the block is left at once and the lock is free again
ReleaseEnter(t) ==
    /\ pc[t] = "rel_enter"
    /\ LockFree
    /\ found' = [found EXCEPT ![t] = ReleaseFound(t)]
    /\ lock' = IF ReleaseFound(t) THEN t ELSE lock
    /\ pc' = [pc EXCEPT ![t] = IF ReleaseFound(t) THEN "rel_remove" ELSE "idle"]
    /\ sawTwin' = (sawTwin \/ (~ReleaseFound(t) /\ Twins(request[t]) # {}))
    /\ UNCHANGED <<requests, heap, iactive, doloop, thread, config, cav, agg, registered,
                   request, atoms, reqid, idx, r, raised, removed, raced, everDone>>

\* `self.requests.remove(request)`; list.remove raises ValueError when no
\* element equals the request, and the handler re-raises it
ReleaseRemove(t) ==
    /\ pc[t] = "rel_remove"
    /\ IF Contains(requests, request[t])
       THEN /\ requests' = RemoveAt(requests, FirstEq(requests, request[t]))
            /\ removed' = Append(removed, <<request[t], requests[FirstEq(requests, request[t])]>>)
            /\ UNCHANGED raised
       ELSE /\ raised' = [raised EXCEPT ![t] = RemoveValueError]
            /\ UNCHANGED <<requests, removed>>
    /\ lock' = None
    /\ pc' = [pc EXCEPT ![t] = "idle"]
    /\ UNCHANGED <<heap, iactive, doloop, thread, config, cav, agg, registered,
                   request, atoms, reqid, idx, r, found, raced, sawTwin, everDone>>

\* ---------------------------------------------------------------- stop()
\* `self._doloop[0] = False`; softexit() is the same call
StopCall(t) ==
    /\ pc[t] = "idle"
    /\ doloop' = FALSE
    /\ raised' = [raised EXCEPT ![t] = "none"]
    /\ request' = [request EXCEPT ![t] = None]
    /\ found' = [found EXCEPT ![t] = FALSE]
    /\ idx' = [idx EXCEPT ![t] = 0]
    /\ pc' = [pc EXCEPT ![t] = "stop_loop"]
    /\ UNCHANGED <<requests, heap, iactive, lock, thread, config, cav, agg, registered,
                   atoms, reqid, r, hist>>

\* `for r in self.requests: r["status"] = "Exit"`, no lock taken
StopNext(t) ==
    /\ pc[t] = "stop_loop"
    /\ idx[t] < Len(requests)
    /\ idx' = [idx EXCEPT ![t] = idx[t] + 1]
    /\ r' = [r EXCEPT ![t] = requests[idx[t] + 1]]
    /\ heap' = [heap EXCEPT ![requests[idx[t] + 1]].status = "Exit"]
    /\ UNCHANGED <<requests, iactive, lock, doloop, thread, config, cav, agg, registered,
                   pc, request, atoms, reqid, found, raised, hist>>

\* where a thread goes when its stop() returns: a wait loop of
\* FFCavPhFPSocket.queue() that called softexit.trigger goes on to sys.exit(),
\* and an FFCavPh.evaluate() that did ends with the SystemExit of trigger()
AfterStop(t) ==
    IF newreq_lst[t] # <<>> THEN "ag_dead"
    ELSE IF ncalc[t] > 0 THEN "ev_exit"
    ELSE "idle"

\* where a thread goes when the `for` loop of stop() is exhausted: in
\* FFSocket.stop and FFCavPhFPSocket.stop, super().stop() has returned and the
\* join and the close follow
AfterStopLoop(t) == IF backend = "socket" THEN "st_join" ELSE AfterStop(t)

\* the list iterator is exhausted: stop() returns
StopReturn(t) ==
    /\ pc[t] = "stop_loop"
    /\ idx[t] >= Len(requests)
    /\ idx' = [idx EXCEPT ![t] = 0]
    /\ r' = [r EXCEPT ![t] = None]
    /\ pc' = [pc EXCEPT ![t] = AfterStopLoop(t)]
    /\ UNCHANGED <<shared, config, cav, agg, registered, request, atoms, reqid, found, raised, hist>>

\* `self._thread.join()` returns once the polling thread has ended
Joined == pc[thread] = "dead"

\* FFSocket.stop, FFCavPhFPSocket.stop:
\* `if self._thread is not None: self._thread.join()`
StopJoin(t) ==
    /\ pc[t] = "st_join"
    /\ thread # None => Joined
    /\ pc' = [pc EXCEPT ![t] = "st_close"]
    /\ UNCHANGED <<shared, config, cav, agg, registered, request, atoms, reqid, idx, r,
                   found, raised, hist>>

\* `self.socket.close()`, and stop() returns
StopClose(t) ==
    /\ pc[t] = "st_close"
    /\ socket' = "closed"
    /\ pc' = [pc EXCEPT ![t] = AfterStop(t)]
    /\ UNCHANGED <<shared, threaded, active, backend, sockreq, threaded_arg, H, xref,
                   cav, agg, registered, request, atoms, reqid, idx, r, found, raised, hist>>

\* the steps of stop() after `self._doloop[0] = False`
StopRest(t) == StopNext(t) \/ StopReturn(t) \/ StopJoin(t) \/ StopClose(t)

\* ---------------------------------------------------------------- start()
\* a start() that spawned a polling thread on every object
SpawnsThreadAlways == TRUE

\* `if self.threaded:` of start()
SpawnsThread == threaded

\* calls of start() that are about to spawn a thread
Starting == {t \in Callers : pc[t] \in {"s_doloop", "s_spawn"}}

\* `if not self._thread is None: raise NameError(...)`; a serial object only
\* does `softexit.register_function(self.softexit)` and returns
StartCall(t) ==
    /\ pc[t] = "idle"
    /\ registered + Cardinality(Starting) < MaxStart
    /\ raised' = [raised EXCEPT ![t] = IF ThreadExists THEN NameError ELSE "none"]
    /\ pc' = [pc EXCEPT ![t] = IF ~ThreadExists /\ SpawnsThread THEN "s_doloop" ELSE "idle"]
    /\ registered' = IF ~ThreadExists /\ ~SpawnsThread THEN registered + 1 ELSE registered
    /\ request' = [request EXCEPT ![t] = None]
    /\ found' = [found EXCEPT ![t] = FALSE]
    /\ UNCHANGED <<shared, config, cav, agg, atoms, reqid, idx, r, hist>>

\* `self._doloop[0] = True`
StartDoloop(t) ==
    /\ pc[t] = "s_doloop"
    /\ doloop' = TRUE
    /\ pc' = [pc EXCEPT ![t] = "s_spawn"]
    /\ UNCHANGED <<requests, heap, iactive, lock, thread, config, cav, agg, registered,
                   request, atoms, reqid, idx, r, found, raised, hist>>

\* `self._thread = threading.Thread(target=self._poll_loop, ...)` and
\* `self._thread.start()`: the polling thread enters _poll_loop; then the
\* thread and the softexit function are registered
StartSpawn(t) ==
    /\ pc[t] = "s_spawn"
    /\ thread' = PollerOf(t)
    /\ pc' = [pc EXCEPT ![t] = "idle", ![PollerOf(t)] = "l_check"]
    /\ registered' = registered + 1
    /\ UNCHANGED <<requests, heap, iactive, lock, doloop, config, cav, agg,
                   request, atoms, reqid, idx, r, found, raised, hist>>

\* FFSocket.start, FFCavPhFPSocket.start: `self.socket.open()`, then
\* super().start() up to its test of self._thread
SockStartCall(t) ==
    /\ pc[t] = "idle"
    /\ registered + Cardinality(Starting) < MaxStart
    /\ socket' = "open"
    /\ raised' = [raised EXCEPT ![t] = IF ThreadExists THEN NameError ELSE "none"]
    /\ pc' = [pc EXCEPT ![t] = IF ~ThreadExists /\ SpawnsThread THEN "s_doloop" ELSE "idle"]
    /\ registered' = IF ~ThreadExists /\ ~SpawnsThread THEN registered + 1 ELSE registered
    /\ request' = [request EXCEPT ![t] = None]
    /\ found' = [found EXCEPT ![t] = FALSE]
    /\ UNCHANGED <<shared, threaded, active, backend, sockreq, threaded_arg, H, xref,
                   cav, agg, atoms, reqid, idx, r, hist>>

\* ---------------------------------------------------------------- _poll_loop()
\* `while self._doloop[0]:`
LoopCheck(t) ==
    /\ pc[t] = "l_check"
    /\ pc' = [pc EXCEPT ![t] = IF doloop THEN "l_len" ELSE "dead"]
    /\ UNCHANGED <<shared, config, cav, agg, registered, request, atoms, reqid, idx, r, found, raised, hist>>

\* a loop that polled only a list of two or more requests
HasRequestsBeyondOne == Len(requests) > 1
\* `len(self.requests) > 0`
HasRequests == Len(requests) > 0

\* `time.sleep(self.latency)`, `if len(self.requests) > 0: self.poll()`
LoopLen(t) ==
    /\ pc[t] = "l_len"
    /\ pc' = [pc EXCEPT ![t] = IF HasRequests THEN "poll" ELSE "l_check"]
    /\ UNCHANGED <<shared, config, cav, agg, registered, request, atoms, reqid, idx, r, found, raised, hist>>

\* ---------------------------------------------------------------- update()
\* `pass`: the call returns without an error
Update(t) ==
    /\ pc[t] = "idle"
    /\ raised' = [raised EXCEPT ![t] = "none"]
    /\ request' = [request EXCEPT ![t] = None]
    /\ found' = [found EXCEPT ![t] = FALSE]
    /\ UNCHANGED <<shared, config, cav, agg, registered, pc, atoms, reqid, idx, r, hist>>

\* ---------------------------------------------------------------- FFCavPhFPSocket.queue()
NoneTypeError == "TypeError: 'NoneType' object is not subscriptable"
UnpackTypeError == "TypeError: cannot unpack non-iterable NoneType object"

\* pos_at of PhotonDriverFabryPerot.split_atom_ph_coord
SplitAtoms(pos) == SubSeq(pos, 1, Len(pos) - nph3)

\* ndim_local = int(ndim_tot // self.n_independent_bath)
NdimLocal(pos) == Len(SplitAtoms(pos)) \div NBath

\* pbcpos_atoms[ndim_local*i : ndim_local*(i+1)]
Block(pos, i) == SubSeq(SplitAtoms(pos), NdimLocal(pos) * i + 1, NdimLocal(pos) * (i + 1))

\* seq[0:n], which stops at the end of seq
Head0(seq, n) == SubSeq(seq, 1, IF n < Len(seq) THEN n ELSE Len(seq))

\* newreq_local of bath i; its id is int(reqid*self.n_independent_bath) + idx
NewChildIdPlusIdx(id, pos, act, i) ==
    [id |-> id + i, pos |-> Block(pos, i), active |-> Head0(act, NdimLocal(pos)),
     result |-> <<>>, status |-> "Queued"]
NewChild(id, pos, act, i) ==
    [id |-> id * NBath + i, pos |-> Block(pos, i), active |-> Head0(act, NdimLocal(pos)),
     result |-> <<>>, status |-> "Queued"]

\* calls of FFCavPhFPSocket.queue() that have not yet allocated their children
AggAllocating == {t \in Callers : pc[t] \in {"ag_setactive", "ag_build"}}

\* a call of FFCavPhFPSocket.queue(), with a reqid of ids, up to
\* `if self.iactive is None:`
AggQueueCallOf(t, ids) ==
    /\ pc[t] = "idle"
    /\ Len(heap) + NBath * Cardinality(AggAllocating) + NBath <= NBath * MaxSubmit
    /\ \E cfg \in AggConfigs, id \in ids :
          /\ atoms' = [atoms EXCEPT ![t] = cfg]
          /\ reqid' = [reqid EXCEPT ![t] = id]
    /\ raised' = [raised EXCEPT ![t] = "none"]
    /\ request' = [request EXCEPT ![t] = None]
    /\ found' = [found EXCEPT ![t] = FALSE]
    /\ pc' = [pc EXCEPT ![t] = IF iactive = <<>> THEN "ag_setactive" ELSE "ag_build"]
    /\ UNCHANGED <<shared, config, cav, agg, registered, idx, r, hist>>

AggQueueCall(t) == AggQueueCallOf(t, ReqIds)
\* the same with any reqid of AggReqIds
AggQueueCallAnyId(t) == AggQueueCallOf(t, AggReqIds)

\* `self.iactive = activehere`
AggSetActive(t) ==
    /\ pc[t] = "ag_setactive"
    /\ ~SizingError(ActiveHere(active, atoms[t]), atoms[t])
    /\ iactive' = <<ActiveHere(active, atoms[t])>>
    /\ pc' = [pc EXCEPT ![t] = "ag_build"]
    /\ UNCHANGED <<requests, heap, lock, doloop, thread, config, cav, agg, registered,
                   request, atoms, reqid, idx, r, found, raised, hist>>

\* the loop that builds newreq_lst
AggBuild(t) ==
    /\ pc[t] = "ag_build"
    /\ heap' = heap \o [i \in 1..NBath |-> NewChild(reqid[t], atoms[t], iactive[1], i - 1)]
    /\ newreq_lst' = [newreq_lst EXCEPT ![t] = [i \in 1..NBath |-> Len(heap) + i]]
    /\ pc' = [pc EXCEPT ![t] = "ag_lock"]
    /\ UNCHANGED <<requests, iactive, lock, doloop, thread, config, cav, registered,
                   request, atoms, reqid, idx, r, found, raised, hist,
                   selfrequest, triggered, nph3, observed, midWait, returned>>

\* `with self._threadlock:`
AggLock(t) ==
    /\ pc[t] = "ag_lock"
    /\ LockFree
    /\ lock' = t
    /\ idx' = [idx EXCEPT ![t] = 0]
    /\ pc' = [pc EXCEPT ![t] = "ag_append"]
    /\ UNCHANGED <<requests, heap, iactive, doloop, thread, config, cav, agg, registered,
                   request, atoms, reqid, r, found, raised, hist>>

\* `for newreq in newreq_lst: self.requests.append(newreq)`
AggAppend(t) ==
    /\ pc[t] = "ag_append"
    /\ idx[t] < Len(newreq_lst[t])
    /\ requests' = Append(requests, newreq_lst[t][idx[t] + 1])
    /\ idx' = [idx EXCEPT ![t] = idx[t] + 1]
    /\ UNCHANGED <<heap, iactive, lock, doloop, thread, config, cav, agg, registered,
                   pc, request, atoms, reqid, r, found, raised, hist>>

\* the owner of the lock when t leaves its `with self._threadlock:` block
WithExitHolds(t) == t
WithExit(t) == None

\* the lock is released; `if not self.threaded: self.poll()`
AggUnlock(t) ==
    /\ pc[t] = "ag_append"
    /\ idx[t] >= Len(newreq_lst[t])
    /\ lock' = WithExit(t)
    /\ idx' = [idx EXCEPT ![t] = 0]
    /\ pc' = [pc EXCEPT ![t] = IF PollsInQueue THEN "poll" ELSE "ag_for"]
    /\ UNCHANGED <<requests, heap, iactive, doloop, thread, config, cav, agg, registered,
                   request, atoms, reqid, r, found, raised, hist>>

\* ---------------------------------------------------------------- FFCavPhFPSocket.poll()
\* the result a driver sends back for child h: energy, one force per
\* coordinate, virial and extra string
ChildResult(h) ==
    <<heap[h].id + 1, [i \in DOMAIN heap[h].pos |-> heap[h].pos[i] + heap[h].id + 1],
      <<<<1, 0, 0>>, <<0, 1, 0>>, <<0, 0, 1>>>>, <<heap[h].id>>>>

\* `self.socket.requests = self.requests` of __init__: the list object the
\* interface is given, the one of ForceField.__init__ or a copy of it
SocketRequestsCopy == "copy"
SocketRequests == "self.requests"

\* the list the interface goes over: self.requests, which is changed in place
\* and never assigned again, or a copy taken of it when it was empty
SockRequests == IF sockreq = "self.requests" THEN requests ELSE <<>>

\* where a thread goes when its poll() returns
AfterSockPoll(t) == IF t \in Pollers THEN "l_check" ELSE "ag_for"

\* `self.socket.poll()`: the interface goes over the shared list; no lock is taken
SockPollEnter(t) ==
    /\ pc[t] = "poll"
    /\ idx' = [idx EXCEPT ![t] = 0]
    /\ pc' = [pc EXCEPT ![t] = "sp_next"]
    /\ UNCHANGED <<shared, config, cav, agg, registered, request, atoms, reqid, r, found, raised, hist>>

\* the interface hands a Queued request to a driver (Running), takes the
\* result of a Running request whose driver has finished (Done), and gives up
\* a Running request whose driver has disconnected (Exit)
SockPollNext(t) ==
    /\ pc[t] = "sp_next"
    /\ idx[t] < Len(SockRequests)
    /\ idx' = [idx EXCEPT ![t] = idx[t] + 1]
    /\ LET h == SockRequests[idx[t] + 1] IN
          \/ /\ heap[h].status = "Queued"
             /\ heap' = [heap EXCEPT ![h].status = "Running"]
             /\ UNCHANGED everDone
          \/ /\ heap[h].status = "Running"
             /\ heap' = [heap EXCEPT ![h].result = ChildResult(h), ![h].status = "Done"]
             /\ everDone' = everDone \cup {h}
          \/ /\ heap[h].status = "Running"
             /\ heap' = [heap EXCEPT ![h].status = "Exit"]
             /\ UNCHANGED everDone
          \/ /\ heap[h].status # "Queued"
             /\ UNCHANGED <<heap, everDone>>
    /\ UNCHANGED <<requests, iactive, lock, doloop, thread, config, cav, agg, registered,
                   pc, request, atoms, reqid, r, found, raised, removed, raced, sawTwin>>

\* the interface has gone over the list
SockPollExit(t) ==
    /\ pc[t] = "sp_next"
    /\ idx[t] >= Len(SockRequests)
    /\ idx' = [idx EXCEPT ![t] = 0]
    /\ pc' = [pc EXCEPT ![t] = AfterSockPoll(t)]
    /\ UNCHANGED <<shared, config, cav, agg, registered, request, atoms, reqid, r, found, raised, hist>>

\* ---------------------------------------------------------------- the wait loop
\* the labels of a thread that is in the wait loop of FFCavPhFPSocket.queue()
InWait == {"ag_for", "ag_while", "ag_if", "ag_release", "ag_rel_do", "ag_clear"}

\* `self.request["status"] == "Exit" or softexit.triggered`
GivesUpIfTriggered(h) == triggered
GivesUpIfExit(h) == heap[h].status = "Exit"
GivesUp(h) == heap[h].status = "Exit" \/ triggered

\* softexit.trigger(): the flag is set and the registered functions, the
\* softexit() of the object, are called by the triggering thread
Trigger(t, after) ==
    /\ triggered' = TRUE
    /\ midWait' = IF triggered THEN midWait ELSE {u \in Callers : pc[u] \in InWait}
    /\ IF started
       THEN /\ doloop' = FALSE
            /\ idx' = [idx EXCEPT ![t] = 0]
            /\ pc' = [pc EXCEPT ![t] = "stop_loop"]
       ELSE /\ pc' = [pc EXCEPT ![t] = after]
            /\ UNCHANGED <<doloop, idx>>

\* the call of FFCavPhFPSocket.queue() by t ends with the exception e
AggRaise(t, e) ==
    /\ raised' = [raised EXCEPT ![t] = e]
    /\ newreq_lst' = [newreq_lst EXCEPT ![t] = <<>>]
    /\ atoms' = [atoms EXCEPT ![t] = <<>>]
    /\ reqid' = [reqid EXCEPT ![t] = 0]
    /\ idx' = [idx EXCEPT ![t] = 0]
    /\ pc' = [pc EXCEPT ![t] = "idle"]

\* `for self.request in newreq_lst:`
AggFor(t) ==
    /\ pc[t] = "ag_for"
    /\ IF idx[t] < Len(newreq_lst[t])
       THEN /\ selfrequest' = newreq_lst[t][idx[t] + 1]
            /\ idx' = [idx EXCEPT ![t] = idx[t] + 1]
            /\ pc' = [pc EXCEPT ![t] = "ag_while"]
       ELSE /\ pc' = [pc EXCEPT ![t] = "ag_merge"]
            /\ UNCHANGED <<selfrequest, idx>>
    /\ UNCHANGED <<shared, config, cav, registered, request, atoms, reqid, r, found, raised, hist,
                   newreq_lst, triggered, nph3, observed, midWait, returned>>

\* `while self.request["status"] != "Done":`
AggWhile(t) ==
    /\ pc[t] = "ag_while"
    /\ IF selfrequest = None
       THEN /\ AggRaise(t, NoneTypeError)
            /\ UNCHANGED observed
       ELSE /\ pc' = [pc EXCEPT ![t] = IF heap[selfrequest].status = "Done"
                                       THEN "ag_release" ELSE "ag_if"]
            /\ observed' = IF heap[selfrequest].status = "Done"
                           THEN observed \cup {<<t, selfrequest>>} ELSE observed
            /\ UNCHANGED <<raised, newreq_lst, atoms, reqid, idx>>
    /\ UNCHANGED <<shared, config, cav, registered, request, r, found, hist,
                   selfrequest, triggered, nph3, midWait, returned>>

\* `if self.request["status"] == "Exit" or softexit.triggered:` then
\* softexit.trigger(...) and sys.exit(), else `time.sleep(self.latency)`
AggIf(t) ==
    /\ pc[t] = "ag_if"
    /\ IF selfrequest = None
       THEN /\ AggRaise(t, NoneTypeError)
            /\ UNCHANGED <<triggered, midWait, doloop>>
       ELSE IF GivesUp(selfrequest)
       THEN /\ Trigger(t, "ag_dead")
            /\ UNCHANGED <<raised, newreq_lst, atoms, reqid>>
       ELSE /\ pc' = [pc EXCEPT ![t] = "ag_while"]
            /\ UNCHANGED <<raised, newreq_lst, atoms, reqid, idx, triggered, midWait, doloop>>
    /\ UNCHANGED <<requests, heap, iactive, lock, thread, config, cav, registered,
                   request, r, found, hist, selfrequest, nph3, observed, returned>>

\* `self.release(self.request)`: the argument is read
AggReleaseCall(t) ==
    /\ pc[t] = "ag_release"
    /\ request' = [request EXCEPT ![t] = selfrequest]
    /\ pc' = [pc EXCEPT ![t] = "ag_rel_do"]
    /\ UNCHANGED <<shared, config, cav, agg, registered, atoms, reqid, idx, r, found, raised, hist>>

\* release(): `with self._threadlock: if request in self.requests: self.requests.remove(request)`
AggReleaseDo(t) ==
    /\ pc[t] = "ag_rel_do"
    /\ LockFree
    /\ IF Contains(requests, request[t])
       THEN /\ requests' = RemoveAt(requests, FirstEq(requests, request[t]))
            /\ removed' = Append(removed, <<request[t], requests[FirstEq(requests, request[t])]>>)
       ELSE UNCHANGED <<requests, removed>>
    /\ pc' = [pc EXCEPT ![t] = "ag_clear"]
    /\ UNCHANGED <<heap, iactive, lock, doloop, thread, config, cav, agg, registered,
                   request, atoms, reqid, idx, r, found, raised, raced, sawTwin, everDone>>

\* `self.request = None`
AggClear(t) ==
    /\ pc[t] = "ag_clear"
    /\ selfrequest' = None
    /\ request' = [request EXCEPT ![t] = None]
    /\ pc' = [pc EXCEPT ![t] = "ag_for"]
    /\ UNCHANGED <<shared, config, cav, registered, atoms, reqid, idx, r, found, raised, hist,
                   newreq_lst, triggered, nph3, observed, midWait, returned>>

\* ---------------------------------------------------------------- the merge
\* buf[a : a + len(f)] = f
SliceAssignAtStart(buf, a, f) ==
    [j \in DOMAIN buf |-> IF j <= Len(f) THEN f[j] ELSE buf[j]]
SliceAssign(buf, a, f) ==
    [j \in DOMAIN buf |-> IF a < j /\ j <= a + Len(f) THEN f[j - a] ELSE buf[j]]

\* sum of two 3x3 arrays
Add33(a, b) == [i \in 1..3 |-> [j \in 1..3 |-> a[i][j] + b[i][j]]]

RECURSIVE MergeFrom(_, _, _, _)
\* the loop `for idx, newreq in enumerate(newreq_lst)` from child i on
MergeFrom(tot, lst, i, nloc) ==
    IF i > Len(lst) THEN tot
    ELSE LET res == heap[lst[i]].result
         IN  MergeFrom(<<tot[1] + res[1],
                         SliceAssign(tot[2], nloc * (i - 1), res[2]),
                         Add33(tot[3], res[3]),
                         tot[4] \o res[4]>>, lst, i + 1, nloc)

\* result_tot after the loop, before the photon terms are added
ResultTot(lst, pos) ==
    MergeFrom(<<0, Zeros(Len(pos)), Zeros33, <<>>>>, lst, 1, NdimLocal(pos))

\* an aggregate that took its status from the first child
AggregateOfFirst(t) ==
    [id |-> reqid[t], pos |-> atoms[t], active |-> iactive[1],
     result |-> ResultTot(newreq_lst[t], atoms[t]),
     status |-> heap[newreq_lst[t][1]].status]

\* the ForceRequest that FFCavPhFPSocket.queue() returns
Aggregate(t) ==
    [id |-> reqid[t], pos |-> atoms[t], active |-> iactive[1],
     result |-> ResultTot(newreq_lst[t], atoms[t]),
     status |-> heap[newreq_lst[t][Len(newreq_lst[t])]].status]

\* the time stamps of the ForceRequest that FFCavPhFPSocket.queue() returns
StampsOfFirst(lst) ==
    [start |-> heap[lst[1]].start, t_queued |-> heap[lst[1]].t_queued,
     t_dispatched |-> heap[lst[1]].t_dispatched, t_finished |-> heap[lst[1]].t_finished]
StampsOf(lst) ==
    [start |-> heap[lst[1]].start, t_queued |-> heap[lst[1]].t_queued,
     t_dispatched |-> heap[lst[1]].t_dispatched,
     t_finished |-> heap[lst[Len(lst)]].t_finished]

\* the ForceRequest that FFCavPhFPSocket.queue() returns, with its time stamps
AggregateStamped(t) == Aggregate(t) @@ StampsOf(newreq_lst[t])

\* `u, f, vir, extra = newreq["result"]` of every child, the merge, and
\* `return newreq`
AggMergeOf(t, newreq) ==
    /\ pc[t] = "ag_merge"
    /\ IF \E i \in DOMAIN newreq_lst[t] : heap[newreq_lst[t][i]].result = <<>>
       THEN /\ AggRaise(t, UnpackTypeError)
            /\ UNCHANGED returned
       ELSE /\ returned' = returned \cup {[by |-> t, children |-> newreq_lst[t], newreq |-> newreq]}
            /\ newreq_lst' = [newreq_lst EXCEPT ![t] = <<>>]
            /\ atoms' = [atoms EXCEPT ![t] = <<>>]
            /\ reqid' = [reqid EXCEPT ![t] = 0]
            /\ idx' = [idx EXCEPT ![t] = 0]
            /\ pc' = [pc EXCEPT ![t] = "idle"]
            /\ UNCHANGED raised
    /\ UNCHANGED <<shared, config, cav, registered, request, r, found, hist,
                   selfrequest, triggered, nph3, observed, midWait>>

AggMerge(t) == AggMergeOf(t, Aggregate(t))
\* the same on requests that carry their time stamps
AggMergeStamped(t) == AggMergeOf(t, AggregateStamped(t))

\* ---------------------------------------------------------------- softexit
\* softexit.trigger() called from outside the object
SoftexitTrigger(t) ==
    /\ pc[t] = "idle"
    /\ ~triggered
    /\ Trigger(t, "idle")
    /\ raised' = [raised EXCEPT ![t] = "none"]
    /\ UNCHANGED <<requests, heap, iactive, lock, thread, config, cav, registered,
                   request, atoms, reqid, r, found, hist,
                   selfrequest, newreq_lst, nph3, observed, returned>>

\* ---------------------------------------------------------------- FFCavPh.evaluate()
\* `count_retry >= 50`
RetryBoundNever(c) == FALSE
RetryBoundReached(c) == c >= RetryBound

\* n_independent_bath of the branch of calc_bare_nuclear_force that self.name
\* selects: the qchem-neo branch is taken with one bath only
CalcBaths(nm) == IF nm = "qchem-neo" THEN 1 ELSE NBath

\* the outcomes of one call, one per bath; Q-Chem output is not compared in size
AttemptOutcomes(nm) ==
    IF nm = "qchem-neo" THEN [1..1 -> Outcomes \ {"checkraises"}]
    ELSE [1..CalcBaths(nm) -> Outcomes]

\* the values of a call that read all it needed, those of `return 0, 0` (the
\* number 0 for the forces, held here as an array of one component), and
\* those read from a gradient file of the wrong size
GoodValues(q) == <<0, Zeros(Len(q))>>
ZeroValues == <<0, <<0>>>>
WrongSizeValues(q) == <<0, Zeros(Len(q) + 1)>>

RECURSIVE QcDriverFrom(_, _, _, _)
\* the loop over the baths of the run_qc_driver branch from bath i on: the
\* new self.error_flag and the values returned. In the `except:` of the size
\* check `return 0, 0` comes before `self.error_flag = True`, so the flag
\* stays as it is.
QcDriverFrom(flag, outs, i, q) ==
    IF i > Len(outs) THEN [flag |-> flag, out |-> GoodValues(q)]
    ELSE IF outs[i] \in {"unreadable", "wrongsize"} THEN [flag |-> TRUE, out |-> ZeroValues]
    ELSE IF outs[i] = "checkraises" THEN [flag |-> flag, out |-> ZeroValues]
    ELSE QcDriverFrom(FALSE, outs, i + 1, q)

\* the qchem-neo branch: the flag is set when a file cannot be read and is
\* written nowhere else; after `return E, force` it is as it was
QChemNeo(flag, outs, q) ==
    IF outs[1] = "unreadable" THEN [flag |-> TRUE, out |-> ZeroValues]
    ELSE [flag |-> flag,
          out |-> IF outs[1] = "wrongsize" THEN WrongSizeValues(q) ELSE GoodValues(q)]

\* calc_bare_nuclear_force(q)
CalcBareNuclearForce(nm, flag, outs, q) ==
    IF nm = "qchem-neo" THEN QChemNeo(flag, outs, q) ELSE QcDriverFrom(flag, outs, 1, q)

\* one call `e, mf = self.calc_bare_nuclear_force(q)` by evaluate() of t
CavAttempt(t) ==
    \E outs \in AttemptOutcomes(name) :
        LET c == CalcBareNuclearForce(name, error_flag, outs, heap[r[t]].pos)
        IN  /\ error_flag' = c.flag
            /\ calcout' = [calcout EXCEPT ![t] = c.out]
            /\ attempt' = [attempt EXCEPT ![t] =
                              IF \A i \in DOMAIN outs : outs[i] = "ok" THEN "ok" ELSE "failed"]

\* `e, mf = self.calc_bare_nuclear_force(q)` and `count_retry = 0`
CavCalc(t) ==
    /\ pc[t] = "ev_calc"
    /\ CavAttempt(t)
    /\ count_retry' = [count_retry EXCEPT ![t] = 0]
    /\ ncalc' = [ncalc EXCEPT ![t] = 1]
    /\ pc' = [pc EXCEPT ![t] = "ev_while"]
    /\ UNCHANGED <<shared, config, agg, registered, request, atoms, reqid, idx, r, found, raised, hist,
                   name>>

\* `while self.error_flag == True:`; when the flag is clear evaluate() goes on
\* to `r["result"] = [...]`
CavWhile(t) ==
    /\ pc[t] = "ev_while"
    /\ IF error_flag
       THEN /\ pc' = [pc EXCEPT ![t] = "ev_retry"]
            /\ UNCHANGED <<count_retry, ncalc>>
       ELSE /\ pc' = [pc EXCEPT ![t] = "ev_result"]
            /\ count_retry' = [count_retry EXCEPT ![t] = 0]
            /\ ncalc' = [ncalc EXCEPT ![t] = 0]
    /\ UNCHANGED <<shared, config, agg, registered, request, atoms, reqid, idx, r, found, raised, hist,
                   error_flag, name, calcout, attempt>>

\* the body of the loop: `e, mf = self.calc_bare_nuclear_force(q)` and
\* `count_retry += 1`
CavRetry(t) ==
    /\ pc[t] = "ev_retry"
    /\ ncalc[t] < MaxCalc
    /\ CavAttempt(t)
    /\ count_retry' = [count_retry EXCEPT ![t] = count_retry[t] + 1]
    /\ ncalc' = [ncalc EXCEPT ![t] = ncalc[t] + 1]
    /\ pc' = [pc EXCEPT ![t] = "ev_if"]
    /\ UNCHANGED <<shared, config, agg, registered, request, atoms, reqid, idx, r, found, raised, hist,
                   name>>

\* `r["result"] = [e, mf, np.zeros((3, 3), float), ""]`
CavResult(t) ==
    /\ pc[t] = "ev_result"
    /\ heap' = [heap EXCEPT ![r[t]].result = <<calcout[t][1], calcout[t][2], Zeros33, "">>]
    /\ calcout' = [calcout EXCEPT ![t] = <<>>]
    /\ attempt' = [attempt EXCEPT ![t] = "none"]
    /\ pc' = [pc EXCEPT ![t] = "p_done"]
    /\ UNCHANGED <<requests, iactive, lock, doloop, thread, config, agg, registered,
                   request, atoms, reqid, idx, r, found, raised, hist,
                   error_flag, count_retry, ncalc, name>>

\* `if (count_retry >= 50): softexit.trigger(...)`
CavIf(t) ==
    /\ pc[t] = "ev_if"
    /\ IF RetryBoundReached(count_retry[t])
       THEN Trigger(t, "ev_exit")
       ELSE /\ pc' = [pc EXCEPT ![t] = "ev_while"]
            /\ UNCHANGED <<triggered, midWait, doloop, idx>>
    /\ UNCHANGED <<requests, heap, iactive, lock, thread, config, cav, registered,
                   request, atoms, reqid, r, found, raised, hist,
                   selfrequest, newreq_lst, nph3, observed, returned>>

\* softexit.trigger ends the thread that called it: the `with
\* self._threadlock:` block of poll() is left and the lock is free again
CavExit(t) ==
    /\ pc[t] = "ev_exit"
    /\ lock' = IF lock = t THEN None ELSE lock
    /\ pc' = [pc EXCEPT ![t] = "ev_dead"]
    /\ UNCHANGED <<requests, heap, iactive, doloop, thread, config, cav, agg, registered,
                   request, atoms, reqid, idx, r, found, raised, hist>>

\* ---------------------------------------------------------------- __init__()
\* the classes whose __init__ calls ForceField.__init__ without `threaded`,
\* which then takes its default, False
DropsThreaded == {"debye", "cavph"}

\* `self.threaded = threaded` of ForceField.__init__, as the __init__ of the
\* class hands the argument it was given on to it
SelfThreaded(cls, arg) == IF cls \in DropsThreaded THEN FALSE ELSE arg

\* ---------------------------------------------------------------- specifications
\* `self.error_flag = False` of FFCavPh.__init__; no evaluate() is running
InitEvaluate ==
    /\ error_flag = FALSE
    /\ count_retry = [t \in Threads |-> 0]
    /\ ncalc = [t \in Threads |-> 0]
    /\ name \in (IF backend = "cavph" THEN Methods ELSE {"none"})
    /\ calcout = [t \in Threads |-> <<>>]
    /\ attempt = [t \in Threads |-> "none"]

\* ForceField.__init__ / FFLennardJones.__init__ (which takes no `active`)
InitObject ==
    /\ requests = <<>>
    /\ heap = <<>>
    /\ iactive = <<>>
    /\ lock = None
    /\ doloop = FALSE
    /\ thread = None
    /\ backend \in {"base", "lj"}
    /\ threaded_arg \in BOOLEAN
    /\ threaded = SelfThreaded(backend, threaded_arg)
    /\ active \in Actives
    /\ backend = "lj" => active = <<-1>>
    /\ sockreq = "none"
    /\ H = <<>>
    /\ xref = <<>>
    /\ socket = "none"

InitThreads ==
    /\ pc = [t \in Threads |-> IF t \in Callers THEN "idle" ELSE "unborn"]
    /\ request = [t \in Threads |-> None]
    /\ atoms = [t \in Threads |-> <<>>]
    /\ reqid = [t \in Threads |-> 0]
    /\ idx = [t \in Threads |-> 0]
    /\ r = [t \in Threads |-> None]
    /\ found = [t \in Threads |-> FALSE]
    /\ raised = [t \in Threads |-> "none"]
    /\ registered = 0
    /\ removed = <<>>
    /\ raced = {}
    /\ sawTwin = FALSE
    /\ everDone = {}
    /\ selfrequest = None
    /\ newreq_lst = [t \in Threads |-> <<>>]
    /\ triggered = FALSE
    /\ nph3 = 0
    /\ observed = {}
    /\ midWait = {}
    /\ returned = {}
    /\ InitEvaluate

Init == InitObject /\ InitThreads

Queue(t) ==
    \/ QueueCall(t) \/ QueueSizingError(t)
    \/ QueueSetActive(t) \/ QueueBuild(t) \/ QueueAppend(t)

Poll(t) ==
    \/ PollEnter(t) \/ PollNext(t) \/ PollExit(t)
    \/ PollRunning(t) \/ PollResult(t) \/ PollDone(t)

Release(t) == ReleaseCall(t) \/ ReleaseEnter(t) \/ ReleaseRemove(t)

Stop(t) == StopCall(t) \/ StopNext(t) \/ StopReturn(t)

Start(t) == StartCall(t) \/ StartDoloop(t) \/ StartSpawn(t)

PollLoop(t) == LoopCheck(t) \/ LoopLen(t)

\* queue(), release() and stop() called by the caller threads at any time
Next == \E t \in Callers : Queue(t) \/ Poll(t) \/ Release(t) \/ Stop(t)

Spec == Init /\ [][Next]_vars

\* a serial ForceField on which the callers only call queue()
InitSerial == Init /\ ~threaded /\ backend = "base"

\* ForceField.poll
PollBase(t) == PollEnter(t) \/ PollNext(t) \/ PollExit(t) \/ PollResult(t) \/ PollDone(t)

NextSerial == \E t \in Callers : Queue(t) \/ PollBase(t)

SpecSerial == InitSerial /\ [][NextSerial]_vars

\* an FFLennardJones, serial or threaded, on which start(), stop() and queue()
\* are called at any time, and its polling threads. Its active is [-1], for
\* which the sanity check of queue() cannot fail.
InitThread == Init /\ backend = "lj"

QueueLJ(t) == QueueCall(t) \/ QueueSetActive(t) \/ QueueBuild(t) \/ QueueAppend(t)

NextThread ==
    \/ \E t \in Callers : QueueLJ(t) \/ Start(t) \/ Stop(t)
    \/ \E t \in Threads : Poll(t)
    \/ \E t \in Pollers : PollLoop(t)

SpecThread == InitThread /\ [][NextThread]_vars

\* a ForceField or FFLennardJones, serial or threaded, on which start() and
\* queue() are called at any time and stop() is not: poll() is run by the
\* callers on a serial object and by the polling threads on a threaded one
NextPolls ==
    \/ \E t \in Callers : Queue(t) \/ Start(t)
    \/ \E t \in Threads : Poll(t)
    \/ \E t \in Pollers : PollLoop(t)

SpecPolls == Init /\ [][NextPolls]_vars

\* a ForceField with the default `active`, serial or threaded, on which the
\* first caller calls queue() and release() and the others start(), stop()
\* and update(), all at any time, and its polling threads
InitLife == Init /\ backend = "base" /\ active = <<-1>>

NextLife ==
    \/ QueueLJ(1) \/ Release(1)
    \/ \E t \in Callers \ {1} : Start(t) \/ Stop(t) \/ Update(t)
    \/ \E t \in Threads : PollBase(t)
    \/ \E t \in Pollers : PollLoop(t)

SpecLife == InitLife /\ [][NextLife]_vars

\* a threaded FFLennardJones on which start() and queue() are called at any
\* time and stop() is not, and its polling threads. A polling thread that can
\* take a step takes one: it is not held up for ever.
InitLive == Init /\ threaded /\ backend = "lj"

PollerStep(t) == Poll(t) \/ PollLoop(t)

NextLive ==
    \/ \E t \in Callers : QueueLJ(t) \/ Start(t)
    \/ \E t \in Pollers : PollerStep(t)

FairPolling == \A t \in Pollers : WF_vars(PollerStep(t))

SpecLive == InitLive /\ [][NextLive]_vars /\ FairPolling

\* a base ForceField, serial or threaded, with an `active` list of ActivesAnyOrder,
\* on which the callers only call queue()
InitSizing ==
    /\ requests = <<>>
    /\ heap = <<>>
    /\ iactive = <<>>
    /\ lock = None
    /\ doloop = FALSE
    /\ thread = None
    /\ backend = "base"
    /\ threaded_arg \in BOOLEAN
    /\ threaded = SelfThreaded(backend, threaded_arg)
    /\ active \in ActivesAnyOrder
    /\ sockreq = "none"
    /\ H = <<>>
    /\ xref = <<>>
    /\ socket = "none"
    /\ InitThreads

NextSizing == \E t \in Callers : Queue(t) \/ PollBase(t)

SpecSizing == InitSizing /\ [][NextSizing]_vars

\* an FFCavPhFPSocket without photon coordinates on which start() has been
\* called: a threaded one has its polling thread running
InitAgg ==
    /\ requests = <<>>
    /\ heap = <<>>
    /\ iactive = <<>>
    /\ lock = None
    /\ backend = "socket"
    /\ threaded_arg \in BOOLEAN
    /\ threaded = SelfThreaded(backend, threaded_arg)
    /\ doloop = threaded
    /\ thread = (IF threaded THEN PollerOf(1) ELSE None)
    /\ active = <<-1>>
    /\ sockreq = SocketRequests
    /\ H = <<>>
    /\ xref = <<>>
    /\ socket = "open"
    /\ pc = [t \in Threads |-> IF t \in Callers THEN "idle"
                               ELSE IF threaded /\ t = PollerOf(1) THEN "l_check" ELSE "unborn"]
    /\ request = [t \in Threads |-> None]
    /\ atoms = [t \in Threads |-> <<>>]
    /\ reqid = [t \in Threads |-> 0]
    /\ idx = [t \in Threads |-> 0]
    /\ r = [t \in Threads |-> None]
    /\ found = [t \in Threads |-> FALSE]
    /\ raised = [t \in Threads |-> "none"]
    /\ registered = 1
    /\ removed = <<>>
    /\ raced = {}
    /\ sawTwin = FALSE
    /\ everDone = {}
    /\ selfrequest = None
    /\ newreq_lst = [t \in Threads |-> <<>>]
    /\ triggered = FALSE
    /\ nph3 = 0
    /\ observed = {}
    /\ midWait = {}
    /\ returned = {}
    /\ InitEvaluate

AggQueue(t) ==
    \/ AggQueueCall(t) \/ AggSetActive(t) \/ AggBuild(t)
    \/ AggLock(t) \/ AggAppend(t) \/ AggUnlock(t)

AggWait(t) ==
    \/ AggFor(t) \/ AggWhile(t) \/ AggIf(t)
    \/ AggReleaseCall(t) \/ AggReleaseDo(t) \/ AggClear(t) \/ AggMerge(t)

SockPoll(t) == SockPollEnter(t) \/ SockPollNext(t) \/ SockPollExit(t)

\* the first caller calls FFCavPhFPSocket.queue() time and again; softexit is
\* triggered once, by another caller or by the wait loop, and calls stop();
\* the polling thread runs
NextAgg ==
    \/ AggQueue(1) \/ AggWait(1)
    \/ \E t \in Callers \ {1} : SoftexitTrigger(t)
    \/ \E t \in Callers : StopRest(t)
    \/ \E t \in Threads : SockPoll(t)
    \/ \E t \in Pollers : PollLoop(t)

SpecAgg == InitAgg /\ [][NextAgg]_vars

\* all callers call FFCavPhFPSocket.queue() at any time; softexit is triggered
\* by a wait loop only
NextAggPair ==
    \/ \E t \in Callers : AggQueue(t) \/ AggWait(t)
    \/ \E t \in Callers : StopRest(t)
    \/ \E t \in Threads : SockPoll(t)
    \/ \E t \in Pollers : PollLoop(t)

SpecAggPair == InitAgg /\ [][NextAggPair]_vars

\* a threaded FFCavPhFPSocket as in SpecAgg. The first caller, once in
\* queue(), goes on; a polling thread that can take a step takes one; and the
\* interface does not leave a listed request Queued or Running for ever: a
\* request its sweeps come to time and again is moved on at some sweep.
InitAggLive == InitAgg /\ threaded

SubmitStep(t) ==
    \/ AggSetActive(t) \/ AggBuild(t) \/ AggLock(t) \/ AggAppend(t) \/ AggUnlock(t)
    \/ AggWait(t) \/ StopRest(t)

SockPollerStep(t) == SockPoll(t) \/ PollLoop(t)

DriverStep(h) ==
    \E t \in Pollers :
        SockPollNext(t) /\ h \in DOMAIN heap /\ heap'[h].status # heap[h].status

FairAgg ==
    /\ WF_vars(SubmitStep(1))
    /\ \A t \in Pollers : WF_vars(SockPollerStep(t))
    /\ \A h \in 1..(NBath * MaxSubmit) : SF_vars(DriverStep(h))

SpecAggLive == InitAggLive /\ [][NextAgg]_vars /\ FairAgg

\* the first caller calls FFCavPhFPSocket.queue() time and again with any
\* reqid of AggReqIds; the polling thread runs
NextAggIds ==
    \/ AggQueueCallAnyId(1) \/ AggSetActive(1) \/ AggBuild(1)
    \/ AggLock(1) \/ AggAppend(1) \/ AggUnlock(1)
    \/ AggWait(1)
    \/ \E t \in Callers : StopRest(t)
    \/ \E t \in Threads : SockPoll(t)
    \/ \E t \in Pollers : PollLoop(t)

SpecAggIds == InitAgg /\ [][NextAggIds]_vars

\* a threaded FFSocket, not yet started
InitSock ==
    /\ requests = <<>>
    /\ heap = <<>>
    /\ iactive = <<>>
    /\ lock = None
    /\ doloop = FALSE
    /\ thread = None
    /\ backend = "socket"
    /\ threaded_arg = TRUE
    /\ threaded = SelfThreaded(backend, threaded_arg)
    /\ active = <<-1>>
    /\ sockreq = SocketRequests
    /\ H = <<>>
    /\ xref = <<>>
    /\ socket = "new"
    /\ InitThreads

SockStart(t) == SockStartCall(t) \/ StartDoloop(t) \/ StartSpawn(t)

SockStop(t) == StopCall(t) \/ StopRest(t)

\* the first caller calls queue(), all callers call start() and stop(), at
\* any time, and the polling threads run
NextSock ==
    \/ QueueLJ(1)
    \/ \E t \in Callers : SockStart(t) \/ SockStop(t)
    \/ \E t \in Pollers : SockPoll(t) \/ PollLoop(t)

SpecSock == InitSock /\ [][NextSock]_vars

\* ---------------------------------------------------------------- fetch()
\* the input classes of the socket force providers
SocketInputs == {"FFSocket", "FFCavPhSocket", "FFCavPhFPSocket"}

\* `raise ValueError("FFSockets cannot poll without threaded mode.")`
FetchValueError(cls) == "ValueError: " \o cls \o "s cannot poll without threaded mode."

\* a fetch() that builds the object whatever `threaded` is
FetchRaisesNever == FALSE

\* `if self.threaded.fetch() == False:`
FetchRaises == threaded_arg = FALSE

\* InputFFSocket.fetch, InputFFCavPhSocket.fetch, InputFFCavPhFPSocket.fetch:
\* the ValueError, or the object constructed with the `threaded` of the input
\* and an interface that is given self.requests
SockFetch(t) ==
    /\ pc[t] = "idle"
    /\ backend = "none"
    /\ \E cls \in SocketInputs :
          IF FetchRaises
          THEN /\ raised' = [raised EXCEPT ![t] = FetchValueError(cls)]
               /\ UNCHANGED <<backend, threaded, sockreq, socket>>
          ELSE /\ raised' = [raised EXCEPT ![t] = "none"]
               /\ backend' = "socket"
               /\ threaded' = SelfThreaded("socket", threaded_arg)
               /\ sockreq' = SocketRequests
               /\ socket' = "new"
    /\ UNCHANGED <<shared, active, threaded_arg, H, xref, cav, agg, registered,
                   pc, request, atoms, reqid, idx, r, found, hist>>

\* an input of a socket force provider with either value of `threaded`, of
\* which no object has been built: backend is "none"
InitFetch ==
    /\ requests = <<>>
    /\ heap = <<>>
    /\ iactive = <<>>
    /\ lock = None
    /\ doloop = FALSE
    /\ thread = None
    /\ backend = "none"
    /\ threaded_arg \in BOOLEAN
    /\ threaded = FALSE
    /\ active = <<-1>>
    /\ sockreq = "none"
    /\ H = <<>>
    /\ xref = <<>>
    /\ socket = "none"
    /\ InitThreads

\* fetch() is called by the first caller; the object it returns is used as in
\* SpecSock
NextFetch == SockFetch(1) \/ (backend = "socket" /\ NextSock)

SpecFetch == InitFetch /\ [][NextFetch]_vars

\* an FFDebye, constructed with either value of `threaded` and with a Hessian
\* and a reference for one atom or for two, on which start() and queue() are
\* called at any time
InitDebye ==
    /\ requests = <<>>
    /\ heap = <<>>
    /\ iactive = <<>>
    /\ lock = None
    /\ doloop = FALSE
    /\ thread = None
    /\ backend = "debye"
    /\ threaded_arg \in BOOLEAN
    /\ threaded = SelfThreaded(backend, threaded_arg)
    /\ active = <<-1>>
    /\ sockreq = "none"
    /\ H \in Hessians
    /\ xref \in Xrefs
    /\ socket = "none"
    /\ InitThreads

\* FFDebye.poll
PollDebye(t) ==
    \/ PollEnter(t) \/ PollNext(t) \/ PollExit(t)
    \/ PollRunning(t) \/ DebyeEvaluate(t) \/ PollDone(t)

\* start() of an FFDebye spawns no thread, its self.threaded being False
NextDebye == \E t \in Callers : QueueLJ(t) \/ StartCall(t) \/ PollDebye(t)

SpecDebye == InitDebye /\ [][NextDebye]_vars

\* an FFCavPh that runs an external program, constructed with either value of
\* `threaded`, on which start() has been called: its self.threaded is False,
\* so that no polling thread runs
InitCavPh ==
    /\ requests = <<>>
    /\ heap = <<>>
    /\ iactive = <<>>
    /\ lock = None
    /\ backend = "cavph"
    /\ threaded_arg \in BOOLEAN
    /\ threaded = SelfThreaded(backend, threaded_arg)
    /\ doloop = threaded
    /\ thread = (IF threaded THEN PollerOf(1) ELSE None)
    /\ active = <<-1>>
    /\ sockreq = "none"
    /\ H = <<>>
    /\ xref = <<>>
    /\ socket = "none"
    /\ pc = [t \in Threads |-> IF t \in Callers THEN "idle"
                               ELSE IF threaded /\ t = PollerOf(1) THEN "l_check" ELSE "unborn"]
    /\ request = [t \in Threads |-> None]
    /\ atoms = [t \in Threads |-> <<>>]
    /\ reqid = [t \in Threads |-> 0]
    /\ idx = [t \in Threads |-> 0]
    /\ r = [t \in Threads |-> None]
    /\ found = [t \in Threads |-> FALSE]
    /\ raised = [t \in Threads |-> "none"]
    /\ registered = 1
    /\ removed = <<>>
    /\ raced = {}
    /\ sawTwin = FALSE
    /\ everDone = {}
    /\ selfrequest = None
    /\ newreq_lst = [t \in Threads |-> <<>>]
    /\ triggered = FALSE
    /\ nph3 = 0
    /\ observed = {}
    /\ midWait = {}
    /\ returned = {}
    /\ InitEvaluate

CavEvaluate(t) ==
    \/ CavCalc(t) \/ CavWhile(t) \/ CavRetry(t) \/ CavIf(t) \/ CavExit(t) \/ CavResult(t)

\* FFCavPh.poll
PollCav(t) == PollEnter(t) \/ PollNext(t) \/ PollExit(t) \/ PollRunning(t) \/ PollDone(t)

\* the callers call queue() at any time, and poll() is run by them at the end
\* of queue(); softexit is triggered by evaluate() only and calls stop()
NextCavPh ==
    \E t \in Callers :
        QueueLJ(t) \/ PollCav(t) \/ CavEvaluate(t) \/ StopNext(t) \/ StopReturn(t)

SpecCavPh == InitCavPh /\ [][NextCavPh]_vars

\* an FFCavPhFPSocket, with or without photon coordinates, whose queue() has
\* waited for and released its children and is about to merge their results
ChildResults == Energies \X ForceBlocks \X Virials \X Extras

InitMerge ==
    /\ nph3 \in {0, OneMode3}
    /\ requests = <<>>
    /\ iactive = <<[i \in 1..(Len(MergeAtoms) + nph3) |-> i - 1]>>
    /\ atoms = [t \in Threads |-> IF t = 1 THEN MergeAtoms \o Zeros(nph3) ELSE <<>>]
    /\ \E res \in [1..NBath -> ChildResults] :
          heap = [i \in 1..NBath |->
                    [NewChild(0, atoms[1], iactive[1], i - 1)
                        EXCEPT !.result = res[i], !.status = "Done"]]
    /\ lock = None
    /\ backend = "socket"
    /\ threaded_arg = TRUE
    /\ threaded = SelfThreaded(backend, threaded_arg)
    /\ doloop = TRUE
    /\ thread = PollerOf(1)
    /\ active = <<-1>>
    /\ sockreq = SocketRequests
    /\ H = <<>>
    /\ xref = <<>>
    /\ socket = "open"
    /\ pc = [t \in Threads |-> IF t = 1 THEN "ag_merge"
                               ELSE IF t = PollerOf(1) THEN "l_check"
                               ELSE IF t \in Callers THEN "idle" ELSE "unborn"]
    /\ request = [t \in Threads |-> None]
    /\ reqid = [t \in Threads |-> 0]
    /\ idx = [t \in Threads |-> IF t = 1 THEN NBath ELSE 0]
    /\ r = [t \in Threads |-> None]
    /\ found = [t \in Threads |-> FALSE]
    /\ raised = [t \in Threads |-> "none"]
    /\ registered = 1
    /\ removed = [i \in 1..NBath |-> <<i, i>>]
    /\ raced = {}
    /\ sawTwin = FALSE
    /\ everDone = 1..NBath
    /\ selfrequest = None
    /\ newreq_lst = [t \in Threads |-> IF t = 1 THEN [i \in 1..NBath |-> i] ELSE <<>>]
    /\ triggered = FALSE
    /\ observed = {<<1, i>> : i \in 1..NBath}
    /\ midWait = {}
    /\ returned = {}
    /\ InitEvaluate

NextMerge == \E t \in Callers : AggMerge(t)

SpecMerge == InitMerge /\ [][NextMerge]_vars

\* the time stamps of a request that is Done: t_queued is read when queue()
\* builds it, t_dispatched when it is set Running, t_finished when it is set
\* Done; start is -1
Stamps ==
    {st \in [start : {-1}, t_queued : Times, t_dispatched : Times, t_finished : Times] :
        st.t_queued <= st.t_dispatched /\ st.t_dispatched <= st.t_finished}

\* an FFCavPhFPSocket whose queue() has waited for and released its children,
\* built one after the other and dispatched and finished in any order, and is
\* about to merge their results
InitStamps ==
    /\ nph3 = 0
    /\ requests = <<>>
    /\ iactive = <<[i \in 1..Len(MergeAtoms) |-> i - 1]>>
    /\ atoms = [t \in Threads |-> IF t = 1 THEN MergeAtoms ELSE <<>>]
    /\ \E st \in [1..NBath -> Stamps] :
          /\ \A i \in 1..(NBath - 1) : st[i].t_queued <= st[i + 1].t_queued
          /\ heap = [i \in 1..NBath |->
                       [NewChild(0, atoms[1], iactive[1], i - 1)
                           EXCEPT !.result = <<i, Zeros(NdimLocal(atoms[1])), Zeros33, <<>>>>,
                                  !.status = "Done"] @@ st[i]]
    /\ lock = None
    /\ backend = "socket"
    /\ threaded_arg = TRUE
    /\ threaded = SelfThreaded(backend, threaded_arg)
    /\ doloop = TRUE
    /\ thread = PollerOf(1)
    /\ active = <<-1>>
    /\ sockreq = SocketRequests
    /\ H = <<>>
    /\ xref = <<>>
    /\ socket = "open"
    /\ pc = [t \in Threads |-> IF t = 1 THEN "ag_merge"
                               ELSE IF t = PollerOf(1) THEN "l_check"
                               ELSE IF t \in Callers THEN "idle" ELSE "unborn"]
    /\ request = [t \in Threads |-> None]
    /\ reqid = [t \in Threads |-> 0]
    /\ idx = [t \in Threads |-> IF t = 1 THEN NBath ELSE 0]
    /\ r = [t \in Threads |-> None]
    /\ found = [t \in Threads |-> FALSE]
    /\ raised = [t \in Threads |-> "none"]
    /\ registered = 1
    /\ removed = [i \in 1..NBath |-> <<i, i>>]
    /\ raced = {}
    /\ sawTwin = FALSE
    /\ everDone = 1..NBath
    /\ selfrequest = None
    /\ newreq_lst = [t \in Threads |-> IF t = 1 THEN [i \in 1..NBath |-> i] ELSE <<>>]
    /\ triggered = FALSE
    /\ observed = {<<1, i>> : i \in 1..NBath}
    /\ midWait = {}
    /\ returned = {}
    /\ InitEvaluate

NextStamps == \E t \in Callers : AggMergeStamped(t)

SpecStamps == InitStamps /\ [][NextStamps]_vars

\* ---------------------------------------------------------------- properties
Listed == Range(requests)
ReleaseReturned(t, h) == pc[t] = "idle" /\ request[t] = h
\* the entries of the removal log that took h out of the list
RemovalsOf(h) == {i \in DOMAIN removed : removed[i][2] = h}

\* C1: on a serial ForceField on which only queue() is called, every request
\* whose queue() call has returned is Done with the result (0, zero forces of
\* the length of its positions, zero 3x3 virial, ""); so once all callers
\* are back, every listed request is Done.
C1_SerialQueueReturnsDone ==
    \A h \in Listed :
        Returned(h) =>
            /\ heap[h].status = "Done"
            /\ heap[h].result = <<0, Zeros(Len(heap[h].pos)), Zeros33, "">>

\* all callers are back from queue(), the list is full and holds a two-atom request
C1_Witness ==
    /\ \A t \in Callers : pc[t] = "idle"
    /\ Len(requests) = MaxReq
    /\ \E h \in Listed : Len(heap[h].pos) = 6 /\ heap[h].status = "Done"

\* C2: of the release() calls given the same listed request exactly one takes
\* it out of the list, the others do nothing, none raises, and no other
\* request is taken out.
C2_ConcurrentReleaseRemovesOnce ==
    /\ \A t \in Callers : raised[t] # RemoveValueError
    /\ \A i \in DOMAIN removed : removed[i][1] = removed[i][2]
    /\ \A h \in DOMAIN heap : Cardinality(RemovalsOf(h)) <= 1
    /\ \A t \in Callers, h \in DOMAIN heap :
          ReleaseReturned(t, h) => h \notin Listed /\ Cardinality(RemovalsOf(h)) = 1

\* two release() calls that ran at once with the same request are both back:
\* one found it, the other did not
C2_Witness ==
    \E h \in raced : \E t, u \in Callers :
        /\ ReleaseReturned(t, h) /\ found[t]
        /\ ReleaseReturned(u, h) /\ ~found[u]
        /\ raised[t] = "none" /\ raised[u] = "none"

\* C3: a request is equal to itself only, and release(b) never takes out of
\* the list a request other than b, also when the list holds a request all of
\* whose fields equal those of b.
C3_IdentityNotValue ==
    /\ \A a, b \in DOMAIN heap : Eq(a, b) <=> a = b
    /\ \A i \in DOMAIN removed : removed[i][1] = removed[i][2]

\* a release(b) that missed b in a list holding an equal-valued request is
\* back, and that request is still listed
C3_Witness ==
    /\ sawTwin
    /\ \E t \in Callers, b \in DOMAIN heap :
          /\ ReleaseReturned(t, b) /\ ~found[t]
          /\ b \notin Listed
          /\ Twins(b) # {}

\* C4: a step of release(r) taken while r is not in the list raises nothing
\* and changes neither the list nor any request.
C4_ReleaseAbsentIsNoop ==
    [][\A t \in Callers :
          (pc[t] \in {"rel_enter", "rel_remove"} /\ pc'[t] # pc[t] /\ ~Contains(requests, request[t]))
          => (requests' = requests /\ heap' = heap /\ raised'[t] = "none")]_vars

\* a release() of a request that a former release() took out is back and
\* found nothing, while the list holds another request
C4_Witness ==
    \E t \in Callers, h \in DOMAIN heap :
        /\ ReleaseReturned(t, h) /\ ~found[t] /\ raised[t] = "none"
        /\ RemovalsOf(h) # {}
        /\ requests # <<>>

\* C5 as stated: once Done, the status of a request never changes.
C5_DoneIsTerminal ==
    [][\A h \in DOMAIN heap : heap[h].status = "Done" => heap'[h].status = "Done"]_vars

\* C5 amended: the status of a Done request is changed only by the loop of
\* stop(), to Exit; poll(), queue() and release() leave it Done.
C5_DoneLeftOnlyByStop ==
    [][\A h \in DOMAIN heap :
          (heap[h].status = "Done" /\ heap'[h].status # "Done")
          => /\ heap'[h].status = "Exit"
             /\ \E t \in Callers : pc[t] = "stop_loop" /\ idx'[t] = idx[t] + 1 /\ r'[t] = h]_vars

\* a request that has been Done is Exit, and another one that a poll() has
\* passed over is still Done
C5_Witness ==
    /\ \E h \in everDone : heap[h].status = "Exit"
    /\ \E h \in everDone : heap[h].status = "Done"

\* C6 as stated: once Exit, the status of a request never changes.
C6_ExitIsTerminal ==
    [][\A h \in DOMAIN heap : heap[h].status = "Exit" => heap'[h].status = "Exit"]_vars

\* C7 as stated: a step that changes the status of a request is taken by the
\* thread that holds the lock.
C7_StatusWrittenUnderLock ==
    [][\A h \in DOMAIN heap :
          heap'[h].status # heap[h].status
          => \E t \in Threads : lock = t /\ (pc'[t] # pc[t] \/ idx'[t] # idx[t])]_vars

\* C8 as stated: in the step in which stop() returns, the run-flag is false
\* and every listed request is Exit.
C8_StopReturnsAllExit ==
    [][\A t \in Callers :
          (pc[t] = "stop_loop" /\ pc'[t] = "idle")
          => (~doloop' /\ \A h \in Range(requests') : heap'[h].status = "Exit")]_vars

\* C9 as stated: a start() called after a start() has returned raises.
C9_StartTwiceFails ==
    [][\A t \in Callers : (StartCall(t) /\ started) => raised'[t] = NameError]_vars

\* C9 amended: on a threaded object a start() called after a start() has
\* returned raises NameError, whatever was called in between; on a serial
\* object start() never raises.
C9_StartTwiceFailsIfThreaded ==
    [][\A t \in Callers :
          StartCall(t) => /\ (threaded /\ started) => raised'[t] = NameError
                          /\ ~threaded => raised'[t] = "none"]_vars

\* on a threaded object a start() has raised after a stop() ended the polling loop
C9_Witness ==
    /\ threaded /\ started /\ ~doloop
    /\ \A p \in Pollers : pc[p] \in {"unborn", "dead"}
    /\ \E t \in Callers : pc[t] = "idle" /\ raised[t] = NameError

\* C10 as stated: at most one polling thread is alive.
C10_AtMostOnePollingThread ==
    Cardinality({p \in Pollers : pc[p] \notin {"unborn", "dead"}}) <= 1

\* the labels of a thread that is inside poll()
InPoll == {"poll", "p_next", "p_running", "p_result"}
\* no polling thread is running _poll_loop
NoPollerAlive == \A p \in Pollers : pc[p] \in {"unborn", "dead"}

\* C11 as stated: a polling thread that wakes up from its sleep while the
\* run-flag is false does not call poll() any more.
C11_NoPollAfterFlagFlip ==
    [][\A p \in Pollers : (~doloop /\ pc[p] = "l_len") => pc'[p] # "poll"]_vars

\* C12: on a threaded object no step of poll() is taken by a thread that
\* called queue(); on a serial object every step of poll() is taken by such
\* a thread, no start() creates a thread and no polling thread is ever born.
C12_SerialXorThreadedPolling ==
    [][/\ \A t \in Threads : Poll(t) => (IF t \in Callers THEN ~threaded ELSE threaded)
       /\ ~threaded => (thread' = None /\ \A p \in Pollers : pc'[p] = "unborn")]_vars

\* on a serial object a start() has returned, no thread exists and a queue()
\* that polled its request to Done is back
C12_Witness ==
    /\ ~threaded /\ started /\ thread = None
    /\ \A t \in Callers : pc[t] = "idle"
    /\ \E h \in Listed : heap[h].status = "Done"

\* C13 as stated: a queue() that appends its request while no polling thread
\* is alive goes on to poll().
C13_PollsWhenNoThreadRuns ==
    [][\A t \in Callers : (QueueAppend(t) /\ NoPollerAlive) => pc'[t] = "poll"]_vars

\* C13 amended: a queue() goes on to poll() after its append exactly if the
\* object is serial, whether or not a polling thread is alive; on a serial
\* object it returns only from the end of a whole pass of poll(), on a
\* threaded one only straight from the append.
C13_PollsIffSerial ==
    [][\A t \in Callers :
          /\ QueueAppend(t) => (pc'[t] = "poll" <=> ~threaded)
          /\ (pc[t] \in InPoll \cup {"q_append"} /\ pc'[t] = "idle")
             => IF threaded THEN pc[t] = "q_append"
                ELSE pc[t] = "p_next" /\ idx[t] >= Len(requests) /\ lock = t]_vars

\* on a threaded object whose polling thread has ended, or was never
\* started, the callers are back from queue() and a request is left Queued
C13_Witness ==
    /\ threaded /\ NoPollerAlive
    /\ \A t \in Callers : pc[t] = "idle"
    /\ \E h \in Listed : heap[h].status = "Queued"

\* C14 as stated: self.iactive is assigned once: no queue() assigns it when
\* it is set already, and once set it keeps its value.
C14_ActiveIndicesComputedOnce ==
    [][/\ \A t \in Callers : QueueSetActive(t) => iactive = <<>>
       /\ iactive # <<>> => iactive' = iactive]_vars

\* the list `active` names an atom that the configuration pos does not have
OutOfRange(act, pos) == \E i \in DOMAIN act : act[i] >= Len(pos) \div 3

\* C15 as stated: a queue() that reaches the sanity check with an `active`
\* list naming an atom index >= the atom count raises the sizing error,
\* appends and allocates nothing and leaves self.iactive as it was.
C15_OutOfRangeActiveRejected ==
    [][\A t \in Callers :
          (pc[t] = "q_setactive" /\ pc'[t] # "q_setactive" /\ OutOfRange(active, atoms[t]))
          => /\ raised'[t] = SizingValueError
             /\ iactive' = iactive /\ requests' = requests /\ heap' = heap]_vars

\* result of child i (from 1) of the returned aggregate x
ChildRes(x, i) == heap[x.children[i]].result

\* C16: for every aggregate that queue() returned and whose children have
\* force vectors of one length L, the energy is the sum of the children's
\* energies, every entry of the virial is the sum of the children's entries,
\* and the L force entries from i*L on are the forces of child i (from 0).
C16_MergeSumsAndPlacesBlocks ==
    \A x \in returned :
        LET K == Len(x.children)
            L == Len(ChildRes(x, 1)[2])
            Energy(i) == ChildRes(x, i + 1)[1]
            tot == x.newreq.result
        IN  (\A i \in 1..K : Len(ChildRes(x, i)[2]) = L)
            => /\ tot[1] = SumTo(Energy, K)
               /\ \A a, b \in 1..3 :
                     LET Vir(i) == ChildRes(x, i + 1)[3][a][b]
                     IN  tot[3][a][b] = SumTo(Vir, K)
               /\ \A i \in 1..K, j \in 1..L : tot[2][(i - 1) * L + j] = ChildRes(x, i)[2][j]
               /\ Len(tot[2]) = Len(x.newreq.pos)

\* an aggregate with photon coordinates has been returned whose two first
\* children differ in energy, forces and virial
C16_Witness ==
    \E x \in returned :
        /\ Len(x.newreq.pos) > Len(x.children) * Len(ChildRes(x, 1)[2])
        /\ ChildRes(x, 1)[1] # ChildRes(x, 2)[1]
        /\ ChildRes(x, 1)[2] # ChildRes(x, 2)[2]
        /\ ChildRes(x, 1)[3] # ChildRes(x, 2)[3]
        /\ ChildRes(x, 1)[1] + ChildRes(x, 2)[1] > 2

\* the call of FFCavPhFPSocket.queue() by t has called softexit.trigger and
\* is on its way to sys.exit()
Dying(t) == newreq_lst[t] # <<>> /\ pc[t] \in {"stop_loop", "st_join", "st_close", "ag_dead"}
\* the aggregates that FFCavPhFPSocket.queue() has returned to caller t
ReturnedTo(t) == {x \in returned : x.by = t}

C19_ChildrenReleasedOnce ==
    \A x \in returned : \A i \in DOMAIN x.children :
        /\ x.children[i] \notin Listed
        /\ Cardinality(RemovalsOf(x.children[i])) = 1
        /\ <<x.by, x.children[i]>> \in observed

\* the call of t holds the lock and has appended some, not all, of its children
MidBatch(t) == pc[t] = "ag_append" /\ 0 < idx[t] /\ idx[t] < Len(newreq_lst[t])

\* C20 as stated: while a call has appended only a part of its children,
\* the list is changed by its own next append only, and no pass of poll()
\* by another thread comes to one of its children or ends.
C20_BatchAppendAtomic ==
    [][\A t \in Callers :
          MidBatch(t)
          => /\ requests' # requests => requests' = Append(requests, newreq_lst[t][idx[t] + 1])
             /\ \A u \in Threads \ {t} :
                   /\ ~SockPollExit(u)
                   /\ SockPollNext(u) => requests[idx[u] + 1] \notin Range(newreq_lst[t])]_vars

\* the ids of the children lst
ChildIds(lst) == {heap[lst[i]].id : i \in DOMAIN lst}

\* C21: the step of queue() that builds the children of a call with reqid r
\* allocates exactly NBath requests, all Queued, the i-th (from 0) with id
\* r*NBath + i; the batch append leaves them at the end of the list in that
\* order; and the children of the running call share no id with the children
\* of a returned aggregate of another reqid, nor do those of two returned
\* aggregates of different reqids.
C21_ChildIdsFromReqid ==
    [][\A t \in Callers :
          /\ (pc[t] = "ag_build" /\ pc'[t] # "ag_build")
             => /\ Len(heap') = Len(heap) + NBath
                /\ newreq_lst'[t] = [i \in 1..NBath |-> Len(heap) + i]
                /\ \A i \in 1..NBath :
                      /\ heap'[newreq_lst'[t][i]].status = "Queued"
                      /\ heap'[newreq_lst'[t][i]].id = reqid[t] * NBath + (i - 1)
                /\ \A x \in returned :
                      x.newreq.id # reqid[t]
                      => ChildIds(x.children)' \cap ChildIds(newreq_lst[t])' = {}
          /\ (pc[t] = "ag_append" /\ pc'[t] # "ag_append")
             => SubSeq(requests', Len(requests') - NBath + 1, Len(requests')) = newreq_lst[t]
          /\ \A x, y \in returned' :
                x.newreq.id # y.newreq.id => ChildIds(x.children)' \cap ChildIds(y.children)' = {}]_vars

\* two aggregates of the reqids 0 and 1 have been returned
C21_Witness ==
    \E x, y \in returned :
        /\ x.newreq.id = 0 /\ y.newreq.id = 1
        /\ ChildIds(x.children) = {0, 1}
        /\ ChildIds(y.children) = {NBath, NBath + 1}

\* C22: a caller that is in its wait loop (or polls, merges, or dies after
\* the loop gave up) does not own the lock; whenever the lock is owned, its
\* owner is a caller inside the batch append, whose next step needs nothing
\* from any other thread.
C22_WaitHoldsNoLock ==
    /\ \A t \in Callers :
          pc[t] \in InWait \cup {"poll", "sp_next", "ag_merge", "ag_dead", "stop_loop"} => lock # t
    /\ lock # None => (lock \in Callers /\ pc[lock] = "ag_append")

\* one caller is between two status checks of its wait loop while another
\* one holds the lock and appends its children, and the polling thread polls
C22_Witness ==
    \E t, u \in Callers :
        /\ t # u
        /\ pc[t] = "ag_if"
        /\ lock = u /\ MidBatch(u)
        /\ \E p \in Pollers : pc[p] = "sp_next"

\* the children of the returned aggregate x that finished last
LastFinished(x) ==
    {h \in Range(x.children) :
        \A g \in Range(x.children) : heap[g].t_finished <= heap[h].t_finished}

\* C23 as stated: the status and the time stamps of a returned aggregate are
\* those of a child of it that finished last.
C23_StampsOfLastFinished ==
    \A x \in returned : \E h \in LastFinished(x) :
        /\ x.newreq.status = heap[h].status
        /\ x.newreq.start = heap[h].start
        /\ x.newreq.t_queued = heap[h].t_queued
        /\ x.newreq.t_dispatched = heap[h].t_dispatched
        /\ x.newreq.t_finished = heap[h].t_finished

\* C23 amended: the status and t_finished of a returned aggregate are those
\* of the last child in the order of submission, and its start, t_queued and
\* t_dispatched are those of the first one, whenever the children finished.
C23_StampsOfFirstAndLastSubmitted ==
    \A x \in returned :
        LET first == heap[x.children[1]]
            last == heap[x.children[Len(x.children)]]
        IN  /\ x.newreq.status = last.status
            /\ x.newreq.t_finished = last.t_finished
            /\ x.newreq.start = first.start
            /\ x.newreq.t_queued = first.t_queued
            /\ x.newreq.t_dispatched = first.t_dispatched

\* an aggregate has been returned whose first child finished after its last
\* one, and was dispatched at another time than the last one
C23_Witness ==
    \E x \in returned :
        LET first == heap[x.children[1]]
            last == heap[x.children[Len(x.children)]]
        IN  /\ first.t_finished > last.t_finished
            /\ first.t_dispatched # last.t_dispatched
            /\ x.newreq.t_finished < first.t_finished

\* the evaluate() call of t has called softexit.trigger and ends with it
CavDying(t) == ncalc[t] > 0 /\ pc[t] \in {"stop_loop", "ev_exit", "ev_dead"}

\* C24: one evaluate() calls calc_bare_nuclear_force at most 1 + RetryBound
\* times, each call after the first one with the error flag set; the check
\* after the retry that brings count_retry to RetryBound triggers softexit;
\* and an evaluate() that has triggered softexit makes no further call and
\* does not come back to its loop.
C24_RetriesBounded ==
    [][\A t \in Threads :
          /\ ncalc'[t] <= RetryBound + 1
          /\ (ncalc[t] >= 1 /\ ncalc'[t] = ncalc[t] + 1) => error_flag
          /\ (pc[t] = "ev_if" /\ pc'[t] # "ev_if" /\ count_retry[t] >= RetryBound)
             => (triggered' /\ CavDying(t)')
          /\ CavDying(t) => (CavDying(t)' /\ ncalc'[t] = ncalc[t])]_vars

\* an evaluate() has made the first call and RetryBound retries, has
\* triggered softexit and is over; its request was left Exit by stop()
C24_Witness ==
    \E t \in Threads :
        /\ pc[t] = "ev_dead"
        /\ ncalc[t] = RetryBound + 1
        /\ triggered /\ lock = None
        /\ \E h \in DOMAIN heap : heap[h].status = "Exit"

\* r["result"] holds energy, one force per coordinate, a 3x3 virial and extra
Populated(h) ==
    /\ Len(heap[h].result) = 4
    /\ Len(heap[h].result[2]) = Len(heap[h].pos)
    /\ Len(heap[h].result[3]) = 3

C27_InterfaceSharesList ==
    [][/\ sockreq' = "self.requests"
       /\ SockRequests' = requests'
       /\ (\E t \in Threads : SockPoll(t))
          => /\ UNCHANGED <<requests, iactive, lock, doloop, thread, config, cav, registered>>
             /\ UNCHANGED <<selfrequest, newreq_lst, triggered, returned, removed>>
             /\ \A h \in DOMAIN heap : heap'[h] # heap[h] => h \in Range(SockRequests)]_vars

\* the pass of the interface is at the one request left in the list after
\* two were appended and one released
C27_Witness ==
    \E t \in Threads :
        /\ pc[t] = "sp_next" /\ idx[t] = 0
        /\ Len(removed) = 1
        /\ Len(SockRequests) = 1
        /\ SockRequests[1] \notin {removed[1][2]}

\* C28: a listed request is out of the list after a step only if the step is
\* the removal of a release() call that was given this request, and the list
\* gets shorter by no other step; so a request that is Done or Exit stays
\* listed through every step of poll(), start(), stop(), update() and
\* _poll_loop().
C28_LeavesOnlyByRelease ==
    [][/\ \A h \in Range(requests) :
             h \notin Range(requests')
             => /\ \E t \in Callers : ReleaseRemove(t) /\ request[t] = h
                /\ removed' = Append(removed, <<h, h>>)
       /\ Len(requests') < Len(requests) => \E t \in Callers : ReleaseRemove(t)]_vars

\* a request that was Done and then set Exit by stop() is still listed after
\* the polling thread has ended, while the other one has been released
C28_Witness ==
    /\ Len(requests) = 1 /\ Len(removed) = 1
    /\ heap[requests[1]].status = "Exit"
    /\ requests[1] \in everDone
    /\ \E p \in Pollers : pc[p] = "dead"
    /\ \A t \in Callers : pc[t] = "idle"

\* what the children of the returned aggregate x were built from: id and pos
ChildInputs(x) == [i \in DOMAIN x.children |-> <<heap[x.children[i]].id, heap[x.children[i]].pos>>]

\* C29: the merged energy, forces and virial of every returned aggregate are
\* those of its children taken by their place in newreq_lst (energies and
\* virials summed, the forces of child i in block i), each child with the
\* result its driver computes from its id and pos; so two aggregates whose
\* children were built alike are merged alike, in whatever order their
\* children became Done.
C29_MergeIgnoresCompletionOrder ==
    /\ \A x \in returned :
          LET K == Len(x.children)
              L == Len(heap[x.children[1]].pos)
              Energy(i) == ChildResult(x.children[i + 1])[1]
              tot == x.newreq.result
          IN  /\ tot[1] = SumTo(Energy, K)
              /\ \A i \in 1..K, j \in 1..L :
                    tot[2][(i - 1) * L + j] = ChildResult(x.children[i])[2][j]
              /\ \A a, b \in 1..3 :
                    LET Vir(i) == ChildResult(x.children[i + 1])[3][a][b]
                    IN  tot[3][a][b] = SumTo(Vir, K)
    /\ \A x, y \in returned :
          ChildInputs(x) = ChildInputs(y)
          => \A k \in 1..3 : x.newreq.result[k] = y.newreq.result[k]

\* an aggregate has been returned, and the next call of the same caller
\* waits for its first child, not yet Done, while its last child is Done
C29_Witness ==
    \E t \in Callers :
        /\ ReturnedTo(t) # {}
        /\ pc[t] = "ag_if" /\ idx[t] = 1
        /\ selfrequest = newreq_lst[t][1]
        /\ heap[newreq_lst[t][1]].status = "Running"
        /\ heap[newreq_lst[t][Len(newreq_lst[t])]].status = "Done"

\* C30 as stated: with several callers in FFCavPhFPSocket.queue() at once,
\* the request a caller waits for and the one it releases are children of its
\* own call, no call ends with the TypeError of a missing request or result,
\* and every child of a returned aggregate was read as Done by the call that
\* returned it and is out of the list.
C30_CallersKeepToOwnChildren ==
    /\ \A t \in Callers :
          /\ pc[t] \in {"ag_while", "ag_if", "ag_release"} => selfrequest \in Range(newreq_lst[t])
          /\ pc[t] = "ag_rel_do" => request[t] \in Range(newreq_lst[t])
          /\ raised[t] \notin {NoneTypeError, UnpackTypeError}
    /\ \A x \in returned : \A i \in DOMAIN x.children :
          /\ <<x.by, x.children[i]>> \in observed
          /\ x.children[i] \notin Listed

\* C31: on a threaded FFLennardJones whose polling thread runs and is not
\* held up for ever, with stop() never called, every request that is in the
\* list is Done at some later time.
C31_ListedIsEventuallyDone ==
    \A h \in 1..MaxReq :
        (thread # None /\ h \in Listed) ~> (h \in DOMAIN heap /\ heap[h].status = "Done")

\* a request is in the list and still Queued while a polling thread runs
C31_Witness ==
    /\ thread # None
    /\ \E h \in Listed : heap[h].status = "Queued"
    /\ \E t \in Pollers : pc[t] = "l_len"

\* C32: on a threaded FFCavPhFPSocket whose polling thread runs and whose
\* interface moves every listed request on, a call of queue() that has begun
\* ends: it returns its aggregate, or it goes through softexit.trigger to
\* sys.exit().
C32_SubmitEnds ==
    (pc[1] # "idle") ~> ((pc[1] = "idle" /\ raised[1] = "none") \/ pc[1] = "ag_dead")

\* the wait loop has found its request not yet Done and goes round again
C32_Witness ==
    /\ pc[1] = "ag_if"
    /\ selfrequest # None
    /\ heap[selfrequest].status \in {"Queued", "Running"}
    /\ ~triggered

\* the result evaluate() writes from a call that read all it needed
GoodResult(h) == <<GoodValues(heap[h].pos)[1], GoodValues(heap[h].pos)[2], Zeros33, "">>

\* C33 as stated: after a call of calc_bare_nuclear_force whose output was
\* missing or malformed the error flag is set, and the result of a request
\* that is Done is never that of such a call.
C33_FailedAttemptSetsFlag ==
    /\ \A t \in Threads :
          (pc[t] \in {"ev_while", "ev_if"} /\ attempt[t] = "failed") => error_flag
    /\ \A h \in DOMAIN heap : heap[h].status = "Done" => heap[h].result = GoodResult(h)

\* C34 as stated: after a retry whose output was complete, made after a
\* failed call and within RetryBound retries, the error flag is clear, the
\* loop is not entered again, softexit is not triggered by this evaluate(),
\* and the values it goes on to write are those of that retry.
C34_GoodRetryEndsLoop ==
    \A t \in Threads :
        /\ (pc[t] \in {"ev_if", "ev_while"} /\ attempt[t] = "ok"
              /\ count_retry[t] >= 1 /\ count_retry[t] <= RetryBound) => ~error_flag
        /\ pc[t] = "ev_retry" => attempt[t] = "failed"
        /\ CavDying(t) => attempt[t] = "failed"
        /\ (pc[t] = "ev_result" /\ attempt[t] = "ok") => calcout[t] = GoodValues(heap[r[t]].pos)

\* the labels of a thread inside the `with self._threadlock:` block of poll()
InSweep == {"p_next", "p_running", "p_result", "p_done"}

\* C35: a thread that is inside the loop of poll() holds the lock, and no step
\* taken while it stays there changes self.requests: neither the append of a
\* queue() nor the remove of a release() falls between the first and the last
\* request of one pass.
C35_ListConstantDuringSweep ==
    [][\A t \in Threads :
          pc[t] \in InSweep =>
              /\ lock = t
              /\ pc'[t] \in InSweep => requests' = requests]_vars

\* a pass of poll() has come to its second request while another caller
\* stands before the append of its queue() or the block of its release()
C35_Witness ==
    \E t, u \in Callers :
        /\ t # u
        /\ pc[t] \in InSweep /\ idx[t] >= 1 /\ Len(requests) >= 2
        /\ pc[u] \in {"q_append", "rel_enter"}

\* C36: the polling mode of the object is the `threaded` argument it was
\* constructed with: constructed with threaded = True, queue() does not run
\* poll() itself and a start() that has returned has spawned the polling
\* thread; constructed with threaded = False, no polling thread exists.
\* FFDebye.__init__ does not hand the argument on, so this fails.
SyncPolling == {"poll", "p_next", "p_running", "db_eval", "p_result", "p_done"}
C36_PollingModeIsArgument ==
    /\ threaded_arg => \A t \in Callers : pc[t] \notin SyncPolling
    /\ (threaded_arg /\ started) => thread # None
    /\ ~threaded_arg => thread = None

\* C37: when evaluate() of FFDebye raises its ValueError in the poll() of a
\* serial queue(), the request of that call is not in the list afterwards and
\* the request evaluated is not Running. The code leaves the request listed
\* and Running, so this fails.
C37_FailedSubmitLeavesQueue ==
    [][\A t \in Callers :
          (pc[t] = "db_eval" /\ pc'[t] = "idle")
             => /\ ~Contains(requests', request[t])
                /\ heap'[r[t]].status # "Running"]_vars

\* C38: every pass of the interface made by a polling thread is made while
\* the socket is open, and stop() closes the socket only when every polling
\* thread has ended. Start() calls that overlap spawn two threads of which
\* stop() joins one, and a stop() that overlaps a start() joins none, so this
\* fails.
Ended == {"unborn", "dead"}
C38_PollsBetweenOpenAndClose ==
    [][/\ \A t \in Pollers : pc'[t] = "sp_next" => socket' = "open"
       /\ (socket # "closed" /\ socket' = "closed") => \A t \in Pollers : pc[t] \in Ended]_vars

\* C39: fetch() of the socket inputs builds no serial object: the object it
\* builds is threaded, and with `threaded` false it builds none and ends with
\* the ValueError.
FetchErrors == {FetchValueError(cls) : cls \in SocketInputs}
C39_NoSerialSocketFetched ==
    [][/\ backend' = "socket" => (threaded' /\ threaded_arg)
       /\ (backend = "none" /\ ~threaded_arg)
             => (backend' = "none" /\ raised'[1] \in FetchErrors)]_vars

\* a fetch() with `threaded` false has ended with the ValueError and no
\* object exists
C39_Witness ==
    /\ ~threaded_arg
    /\ backend = "none"
    /\ raised[1] \in FetchErrors

\* the result of an aggregate holds an energy, one force for every
\* coordinate, a virial and the extras
PopulatedResult(x) ==
    /\ Len(x.newreq.result) = 4
    /\ Len(x.newreq.result[2]) = Len(x.newreq.pos)
    /\ Len(x.newreq.result[3]) = 3

====
